---- MODULE Spec2Model ----
(***************************************************************************)
(* Feather: the per-connection HTTP state machine of the coroutine server  *)
(* (crates/feather-runtime/src/runtime/server.rs, Server::conn_handler)    *)
(* and the request dispatch of the application service                     *)
(* (crates/feather/src/internals/service.rs, AppService::run_middleware). *)
(*                                                                         *)
(* The byte stream of a connection is a sequence of tokens.  CR and LF are *)
(* single bytes, every body byte is a single byte, and the text of a       *)
(* request line or of one header field is one token (its own CR LF are     *)
(* separate bytes).  Lengths are counted in tokens.                        *)
(***************************************************************************)
EXTENDS Integers, Sequences, FiniteSets, TLC

\* ------------------------------------------------------------------ bounds
\* size of the read buffer `temp` (4096 in the source), in tokens
TempLen == 12
\* ServerConfig.max_body_size, in tokens
max_body_size == 6
\* the longest body a client of the model sends
MaxBodyLen == 3
\* the most routes and global middleware an application registers
MaxRoutes == 2
MaxGlobal == 2
\* the longest route pattern and request path, in characters
MaxPathLen == 4
\* threads that push to the queue, threads that pop from it
NProducers == 2
NConsumers == 2
\* pushes per producer, calls of Server::unblock
MaxPush == 2
MaxUnblock == 1
\* the largest min_workers and max_workers of a PoolConfig
MaxMinWorkers == 2
MaxMaxWorkers == 2
\* calls of add_task, timeouts in a row of one worker's recv_timeout
MaxTasks == 2
MaxIdleTimeouts == 2
\* requests a client sends on one connection of the queue-based server
MaxRequests == 3
\* requests that arrive on a second connection of the queue-based server
MaxPeerRequests == 1
\* operations called on one Response, the longest body a handler passes
MaxOps == 3
MaxDataLen == 1
\* calls of listener.accept() that return
MaxAccepts == 3
\* threads that use the AppContext, handles to it (the first and its clones)
NCtxThreads == 2
MaxHandles == 2
\* middlewares on a router, middlewares in one chain!
MaxStack == 2
MaxChain == 3

\* httparse header slots: [httparse::EMPTY_HEADER; 16]
MaxHeaders == 16

VARIABLES
    \* --- the connection (Server::conn_handler)
    wire,            \* every byte the client sends on this connection, in order
    eof,             \* TRUE: the client closes after `wire`; FALSE: it goes silent
    pos,             \* number of bytes of `wire` the handler has read
    pc,              \* position of the handler in its loop
    iter,            \* number of the current pass of `while keep_alive`
    start,           \* value of pos when the current pass began
    buffer,          \* `buffer` of the header read loop
    body,            \* `body`
    keep_alive,      \* `keep_alive`
    content_length,  \* `content_length`
    out,             \* responses handed to stream.write_all, in order
    parsed,          \* history: the header blocks that parsed, one per pass
    handled,         \* history: the requests passed to service.handle
    hdrDone,         \* history: <<pass, start>> of the passes whose header loop
                     \* found the terminator
    ret,             \* what conn_handler returned: "none", "Ok" or "Err"
    \* --- one dispatch (AppService::run_middleware)
    routes,          \* AppService.routes, in registration order
    middleware,      \* AppService.middleware, in registration order
    error_handler,   \* AppService.error_handler is Some
    request,         \* the request being dispatched
    dpc,             \* position in run_middleware
    gi,              \* index of the next global middleware
    ri,              \* index of the next route
    response,        \* `response`
    found,           \* `found`
    params,          \* the params last attached by request.set_params
    calls,           \* history: the handlers invoked, in order
    \* --- the blocking queue (Queue<T>) and the threads that use it
    queue,           \* `queue`: the VecDeque of QueueFlow entries, front first
    consumer,        \* per consumer thread, where it is in pop: "ready" (about
                     \* to take the lock), "parked" (in condvar.wait) or
                     \* "done" (pop returned None)
    next_item,       \* per producer thread, the number of its next push
    unblocks,        \* calls of Server::unblock so far
    shutdown_flag,   \* `shutdown_flag`
    popped,          \* history: what the pops returned, in order
    \* --- the worker pool (TaskPool)
    max_workers,     \* `config.max_workers`
    min_workers,     \* `config.min_workers`
    channel,         \* the jobs sent and not yet received, oldest first
    active_workers,  \* `active_workers`
    idle_workers,    \* `idle_workers`, a usize modulo 2^64, written as the
                     \* representative nearest to 0: -1 is usize::MAX
    workers,         \* per worker thread spawned, where it is in its loop
                     \* (st), how often in a row its recv_timeout has timed
                     \* out (t) and how its last task ended (last)
    submitted,       \* calls of add_task so far
    caller,          \* the thread that calls add_task: "idle", or "sent"
                     \* between the send and the test for a new worker
    dropped,         \* the pool was dropped
    \* --- one connection of the queue-based server (engine.rs)
    client,          \* the requests the client has sent, in order
    nread,           \* how many of them the connection coroutine has read
    reader,          \* the connection coroutine: "reading" or "exited"
    messages,        \* `messages`: the requests pushed and not yet popped
    foreach,         \* for_each: "recv", "handling" or "returned"
    current,         \* the request for_each is handling
    sock_shutdown,   \* stream.shutdown(Shutdown::Both) was called
    socklog,         \* history: the reads and writes on the sockets, in
                     \* order; `conn` is the connection, `pushed` tells
                     \* whether the request read was queued, `res` how the
                     \* write went
    peer,            \* how many requests the coroutine of a second
                     \* connection has read, parsed and pushed
    \* --- one Response (http/response.rs)
    res_status,      \* `status`
    res_headers,     \* `headers`: per header name its value, or Absent
    res_body,        \* `body`: None, or the bytes (their origin and length)
    res_ops,         \* history: the operations called on the Response
    res_raw,         \* what the last to_raw returned
    \* --- the accept loop (Server::run) and the coroutines it spawns
    running,         \* `running`
    acceptor,        \* the accept loop: "accepting", "returned" or "dead"
    accepts,         \* calls of listener.accept() that returned
    conns,           \* per connection accepted: how its coroutine stands (st),
                     \* and how many panics had happened when it was accepted
                     \* (after) and when it ended (fin)
    panics,          \* history: panics raised in connection coroutines
    \* --- AppContext (internals/context.rs)
    registries,      \* the heap of Arc<RwLock<HashMap<TypeId, Arc<Erased>>>>
                     \* allocations: per allocation the map, the thread
                     \* holding the write lock (0: none) and the readers
    handles,         \* the AppContext values: `inner` of each, as the index
                     \* of the allocation it points to
    cthreads,        \* per thread: where it is in its call (pc), the call
                     \* (op, ty, v) and the allocation `self.inner` points
                     \* to (i); a completed set_state stays on record
    spec_map,        \* history: the map keyed by type, value last set per type
    last_return,     \* history: the call that returned last and its result
    \* --- ScopedMiddleware::handle (internals/router.rs) over chain!
    router_stack,    \* `router_stack`: what each middleware returns
    route_handler,   \* `route_handler`: a middleware, or a chain! of several
    spc,             \* where handle is: "Stack" (in it) or "Done" (returned)
    si,              \* the index of the `for mw in &self.router_stack` loop
    sret,            \* what handle returned
    scalls           \* history: the middlewares invoked, in order

connVars == <<wire, eof, pos, pc, iter, start, buffer, body, keep_alive,
              content_length, out, parsed, handled, hdrDone, ret>>

dispVars == <<routes, middleware, error_handler, request, dpc, gi, ri,
              response, found, params, calls>>

queueVars == <<queue, consumer, next_item, unblocks, shutdown_flag, popped>>

poolVars == <<max_workers, min_workers, channel, active_workers, idle_workers,
              workers, submitted, caller, dropped>>

engVars == <<client, nread, reader, messages, foreach, current, sock_shutdown,
             socklog, peer>>

resVars == <<res_status, res_headers, res_body, res_ops, res_raw>>
accVars == <<running, acceptor, accepts, conns, panics>>
ctxVars == <<registries, handles, cthreads, spec_map, last_return>>
scopedVars == <<router_stack, route_handler, spc, si, sret, scalls>>

notConnVars == <<dispVars, queueVars, poolVars, engVars, resVars, accVars,
                ctxVars, scopedVars>>
notDispVars == <<connVars, queueVars, poolVars, engVars, resVars, accVars,
                ctxVars, scopedVars>>
notQueueVars == <<connVars, dispVars, poolVars, engVars, resVars, accVars,
                ctxVars, scopedVars>>
notPoolVars == <<connVars, dispVars, queueVars, engVars, resVars, accVars,
                ctxVars, scopedVars>>
notEngVars == <<connVars, dispVars, queueVars, poolVars, resVars, accVars,
                ctxVars, scopedVars>>
notResVars == <<connVars, dispVars, queueVars, poolVars, engVars, accVars,
                ctxVars, scopedVars>>

notAccVars == <<connVars, dispVars, queueVars, poolVars, engVars, resVars,
                ctxVars, scopedVars>>

notCtxVars == <<connVars, dispVars, queueVars, poolVars, engVars, resVars,
                accVars, scopedVars>>
notScopedVars == <<connVars, dispVars, queueVars, poolVars, engVars, resVars,
                   accVars, ctxVars>>

vars == <<connVars, dispVars, queueVars, poolVars, engVars, resVars, accVars,
          ctxVars, scopedVars>>

\* ------------------------------------------------------------------ bytes
CR == <<"CR", "", "", "">>
LF == <<"LF", "", "", "">>
RL(method, target, version) == <<"RL", method, target, version>>
H(name, value) == <<"H", name, value, "">>
B(x) == <<"B", x, "", "">>

Min(a, b) == IF a < b THEN a ELSE b

\* w == b"\r\n\r\n" for the window of buf that starts at i
IsTerminatorAt(buf, i) ==
    /\ i >= 1 /\ i + 3 <= Len(buf)
    /\ buf[i] = CR /\ buf[i + 1] = LF /\ buf[i + 2] = CR /\ buf[i + 3] = LF

\* buffer.windows(4).any(|w| w == b"\r\n\r\n")
HasTerminator(buf) == \E i \in 1..Len(buf) : IsTerminatorAt(buf, i)

\* buffer.windows(4).position(|w| w == b"\r\n\r\n").unwrap() + 4
header_end(buf) ==
    LET p == CHOOSE i \in 1..Len(buf) :
                /\ IsTerminatorAt(buf, i)
                /\ \A j \in 1..(i - 1) : ~IsTerminatorAt(buf, j)
    IN p + 3

headers_raw(buf) == SubSeq(buf, 1, header_end(buf))

\* ------------------------------------------------------- Request::parse
\* u8::to_ascii_lowercase over the strings of the model
to_ascii_lowercase(s) ==
    CASE s = "Connection" -> "connection"
      [] s = "Transfer-Encoding" -> "transfer-encoding"
      [] s = "Content-Length" -> "content-length"
      [] s = "Close" -> "close"
      [] s = "CLOSE" -> "close"
      [] s = "Chunked" -> "chunked"
      [] s = "Keep-Alive" -> "keep-alive"
      [] OTHER -> s

eq_ignore_ascii_case(a, b) == to_ascii_lowercase(a) = to_ascii_lowercase(b)

\* str::parse::<usize>(): -1 stands for Err
parse_usize(s) ==
    CASE s = "0" -> 0 [] s = "1" -> 1 [] s = "2" -> 2 [] s = "3" -> 3
      [] s = "4" -> 4 [] s = "5" -> 5 [] s = "6" -> 6 [] s = "7" -> 7
      [] s = "8" -> 8 [] s = "9" -> 9
      [] OTHER -> -1

\* httparse: a method is a non-empty run of token characters
IsToken(m) == m \in {"GET", "POST", "INVALID"}
\* httparse / Uri::parse accept the request target
IsUri(t) == t \in {"/", "/x"}
\* httparse: the version is HTTP/1.0 or HTTP/1.1
IsVersion(v) == v \in {"1.0", "1.1"}
\* httparse / HeaderName::from_bytes accept the header name
IsHeaderName(n) == n \notin {"", "Bad Name"}

\* HeaderMap: a set of <<name, value>> with one value per (lower-case) name
HeaderInsert(h, n, v) == {p \in h : p[1] # n} \cup {<<n, v>>}
HeaderContains(h, n) == \E p \in h : p[1] = n
HeaderGet(h, n) == (CHOOSE p \in h : p[1] = n)[2]

ParseError ==
    [ok |-> FALSE, method |-> "", uri |-> "", version |-> "", headers |-> {},
     body |-> <<>>]

\* httparse skips the empty lines before the request line
RECURSIVE SkipEmptyLines(_)
SkipEmptyLines(s) ==
    IF Len(s) >= 2 /\ s[1] = CR /\ s[2] = LF
    THEN SkipEmptyLines(SubSeq(s, 3, Len(s)))
    ELSE s

\* the header lines up to the empty line; n counts the slots used
RECURSIVE ParseHeaderLines(_, _, _)
ParseHeaderLines(s, h, n) ==
    IF Len(s) >= 2 /\ s[1] = CR /\ s[2] = LF
    THEN [ok |-> TRUE, headers |-> h]
    ELSE IF Len(s) >= 3 /\ s[1][1] = "H" /\ s[2] = CR /\ s[3] = LF
              /\ n < MaxHeaders /\ IsHeaderName(s[1][2])
         THEN ParseHeaderLines(SubSeq(s, 4, Len(s)),
                               HeaderInsert(h, to_ascii_lowercase(s[1][2]), s[1][3]),
                               n + 1)
         ELSE [ok |-> FALSE, headers |-> {}]

\* Request::parse that takes any method text, the empty one too
RequestParse_AnyMethod(raw, b) ==
    LET s == SkipEmptyLines(raw) IN
    IF s = <<>> \/ Len(s) < 3 THEN ParseError
    ELSE IF \/ s[1][1] # "RL"
            \/ s[2] # CR \/ s[3] # LF
         THEN ParseError
         ELSE LET hs == ParseHeaderLines(SubSeq(s, 4, Len(s)), {}, 0) IN
              IF ~hs.ok THEN ParseError
              ELSE [ok |-> TRUE,
                    method |-> s[1][2],
                    uri |-> s[1][3],
                    version |-> IF s[1][4] = "1.0" THEN "HTTP_10" ELSE "HTTP_11",
                    headers |-> hs.headers,
                    body |-> b]

\* Request::parse(raw, body): the request line and the headers come from
\* raw, the body is attached as given
RequestParse(raw, b) ==
    LET s == SkipEmptyLines(raw) IN
    IF s = <<>> \/ Len(s) < 3 THEN ParseError
    ELSE IF \/ s[1][1] # "RL"
            \/ ~IsToken(s[1][2])
            \/ ~IsUri(s[1][3])
            \/ ~IsVersion(s[1][4])
            \/ s[2] # CR \/ s[3] # LF
         THEN ParseError
         ELSE LET hs == ParseHeaderLines(SubSeq(s, 4, Len(s)), {}, 0) IN
              IF ~hs.ok THEN ParseError
              ELSE [ok |-> TRUE,
                    method |-> s[1][2],
                    uri |-> s[1][3],
                    version |-> IF s[1][4] = "1.0" THEN "HTTP_10" ELSE "HTTP_11",
                    headers |-> hs.headers,
                    body |-> b]

\* ------------------------------------------------------------- clients
Digits == <<"1", "2", "3", "4", "5", "6", "7", "8", "9">>
\* n distinct body bytes
BodyBytes(n) == [i \in 1..n |-> B(Digits[i])]

CRLF == <<CR, LF>>

RECURSIVE HeaderLines(_)
HeaderLines(hs) ==
    IF hs = <<>> THEN <<>> ELSE <<Head(hs)>> \o CRLF \o HeaderLines(Tail(hs))

\* the bytes of one request: request line, header lines, empty line, body
Encode(line, hs, b) == <<line>> \o CRLF \o HeaderLines(hs) \o CRLF \o b

ConnectionHeaders ==
    {<<>>, <<H("Connection", "close")>>, <<H("connection", "Close")>>,
     <<H("Connection", "keep-alive")>>}
TransferHeaders ==
    {<<>>, <<H("Transfer-Encoding", "chunked")>>,
     <<H("transfer-encoding", "Chunked")>>, <<H("Transfer-Encoding", "gzip")>>}
LengthHeaders ==
    {<<>>, <<H("Content-Length", "0")>>, <<H("Content-Length", "3")>>,
     <<H("content-length", "9")>>, <<H("Content-Length", "x")>>}

GoodLines == {RL("GET", "/x", "1.1"), RL("POST", "/x", "1.0")}
\* an empty method, a missing method, a bad target, a bad version
BadLines ==
    {RL("", "/", "1.1"), RL("/test", "HTTP/1.1", ""), RL("GET", "^", "1.1"),
     RL("GET", "/", "2.0")}

\* the length a Content-Length header line declares, 0 without one
Declared(n) ==
    IF n = <<>> \/ parse_usize(n[1][3]) < 0 THEN 0 ELSE parse_usize(n[1][3])

GoodShapes ==
    GoodLines \X ConnectionHeaders \X TransferHeaders \X LengthHeaders
        \X (0..MaxBodyLen)
EncodeShape(q) == Encode(q[1], q[2] \o q[3] \o q[4], BodyBytes(q[5]))

\* requests sent whole: the body has the declared length
WholeRequests ==
    {EncodeShape(q) : q \in {x \in GoodShapes : x[5] = Declared(x[4])}}
\* requests cut short: fewer body bytes than declared, and nothing after
ShortRequests ==
    {EncodeShape(q) : q \in {x \in GoodShapes : x[5] < Declared(x[4])}}
BadRequests ==
    {Encode(l, hs, BodyBytes(k)) :
        l \in BadLines,
        hs \in {<<>>, <<H("Transfer-Encoding", "chunked")>>,
                <<H("Connection", "close"), H("Content-Length", "3")>>},
        k \in {0, 2}}
    \cup {Encode(RL("GET", "/x", "1.1"), <<H("Bad Name", "v")>>, <<>>),
          CRLF \o CRLF}

\* what the client sends after the first request, without waiting
FollowUps == {<<>>, Encode(RL("GET", "/", "1.1"), <<>>, <<>>)}

Wires ==
    {r \o f : r \in WholeRequests \cup BadRequests, f \in FollowUps}
    \cup ShortRequests
    \cup {CRLF \o Encode(RL("GET", "/x", "1.1"), <<>>, <<>>)}

\* what service.handle returns: io::Result<ServiceResult>
ServiceResults ==
    {[kind |-> "Response", status |-> 200, close |-> FALSE],
     [kind |-> "Response", status |-> 200, close |-> TRUE],
     [kind |-> "Consumed", status |-> 0, close |-> FALSE],
     [kind |-> "Err", status |-> 0, close |-> FALSE]}

\* ---------------------------------------------- Response, as dispatch sees it
\* Response::default(): 200 and no body
DefaultResponse ==
    [status |-> 200, body |-> [src |-> "none", n |-> 0, text |-> ""]]
\* response.set_status(s).send_text(text), by run_middleware itself
EngineResponse(s, text) ==
    [status |-> s, body |-> [src |-> "engine", n |-> 0, text |-> text]]

\* no dispatch is under way
DispIdle ==
    /\ routes = <<>>
    /\ middleware = <<>>
    /\ error_handler = FALSE
    /\ request = [method |-> "GET", path |-> <<>>]
    /\ dpc = "Idle"
    /\ gi = 1
    /\ ri = 1
    /\ response = DefaultResponse
    /\ found = FALSE
    /\ params = {}
    /\ calls = <<>>


\* ------------------------------------------------- Server::conn_handler
\* no queue is in use
QueueIdle ==
    /\ queue = <<>>
    /\ consumer = <<>>
    /\ next_item = <<>>
    /\ unblocks = 0
    /\ shutdown_flag = FALSE
    /\ popped = <<>>

\* the header names a Response of the model carries, lower-cased as
\* HeaderName stores them
ResHeaderNames == {"content-type", "content-length", "date", "location",
                   "x-custom"}
\* header values are sequences of tokens: a media type, a date or a URL is one
\* token, a number is its digits; the empty sequence stands for no header
Absent == <<>>
\* Option<Bytes>::None
None == [some |-> FALSE, src |-> "", len |-> 0]
\* Some(Bytes) of len bytes that came from src
Some(src, len) == [some |-> TRUE, src |-> src, len |-> len]

\* Response::default(): 200, no header, no body
ResDefault ==
    /\ res_status = 200
    /\ res_headers = [h \in ResHeaderNames |-> Absent]
    /\ res_body = None
    /\ res_ops = <<>>
    /\ res_raw = <<>>

\* the types stored in the AppContext and the values set
Types == {"i32", "String"}
Values == {1, 2}
\* TypeId::of::<T>()
TypeId_of(T) == <<"TypeId", T>>
\* HashMap::new()
HashMap_new == [k \in {TypeId_of(T) : T \in Types} |-> <<>>]
\* a thread that is in no call
IdleThread == [pc |-> "idle", op |-> "none", ty |-> "none", v |-> 0, i |-> 0]
\* no call has returned
NoReturn == [op |-> "none", ty |-> "none", val |-> <<>>]

\* no AppContext was created
CtxIdle ==
    /\ registries = <<>>
    /\ handles = <<>>
    /\ cthreads = [t \in 1..NCtxThreads |-> IdleThread]
    /\ spec_map = [T \in Types |-> <<>>]
    /\ last_return = NoReturn

\* no scoped middleware is running
ScopedIdle ==
    /\ router_stack = <<>>
    /\ route_handler = <<>>
    /\ spc = "Done"
    /\ si = 0
    /\ sret = "none"
    /\ scalls = <<>>

\* Server::run was not called
AccIdle ==
    /\ running = TRUE
    /\ acceptor = "returned"
    /\ accepts = 0
    /\ conns = <<>>
    /\ panics = 0

\* no request of the queue-based server
NoRequest == [id |-> 0, conn |-> 0, close |-> FALSE, has_stream |-> FALSE]

\* the queue-based server has no connection
EngIdle ==
    /\ client = <<>>
    /\ nread = 0
    /\ reader = "exited"
    /\ messages = <<>>
    /\ foreach = "returned"
    /\ current = NoRequest
    /\ sock_shutdown = FALSE
    /\ socklog = <<>>
    /\ peer = 0

\* no pool is in use
PoolIdle ==
    /\ max_workers = 0
    /\ min_workers = 0
    /\ channel = <<>>
    /\ active_workers = 0
    /\ idle_workers = 0
    /\ workers = <<>>
    /\ submitted = 0
    /\ caller = "idle"
    /\ dropped = FALSE

\* no connection is being served
ConnIdle ==
    /\ wire = <<>>
    /\ eof = TRUE
    /\ pos = 0
    /\ pc = "Terminated"
    /\ iter = 1
    /\ start = 0
    /\ buffer = <<>>
    /\ body = <<>>
    /\ keep_alive = TRUE
    /\ content_length = 0
    /\ out = <<>>
    /\ parsed = <<>>
    /\ handled = <<>>
    /\ hdrDone = {}
    /\ ret = "none"

InitConn ==
    /\ wire \in Wires
    /\ eof \in BOOLEAN
    /\ pos = 0
    /\ pc = "ReadingHeaders"
    /\ iter = 1
    /\ start = 0
    /\ buffer = <<>>
    /\ body = <<>>
    /\ keep_alive = TRUE
    /\ content_length = 0
    /\ out = <<>>
    /\ parsed = <<>>
    /\ handled = <<>>
    /\ hdrDone = {}
    /\ ret = "none"
    /\ DispIdle
    /\ QueueIdle
    /\ PoolIdle
    /\ EngIdle
    /\ ResDefault
    /\ AccIdle
    /\ CtxIdle
    /\ ScopedIdle

Available == Len(wire) - pos

\* stream.read(&mut temp) returning n > 0 bytes
Chunk(n) == SubSeq(wire, pos + 1, pos + n)

SendError_NoClose(status, wok) ==
    /\ out' = Append(out, [iter |-> iter, status |-> status, close |-> FALSE,
                           ok |-> wok])
    /\ ret' = IF wok THEN "Ok" ELSE "Err"
    /\ pc' = "Terminated"

\* Server::send_error, then `?` and `return Ok(())`: the response carries
\* Connection: close; wok is whether write_all succeeded
SendError(status, wok) ==
    /\ out' = Append(out, [iter |-> iter, status |-> status, close |-> TRUE,
                           ok |-> wok])
    /\ ret' = IF wok THEN "Ok" ELSE "Err"
    /\ pc' = "Terminated"

\* the header read loop, one read that returns data
ReadHeaders(n, wok) ==
    /\ pc = "ReadingHeaders"
    /\ n \in 1..Min(TempLen, Available)
    /\ pos' = pos + n
    /\ buffer' = buffer \o Chunk(n)
    /\ IF HasTerminator(buffer')
       THEN /\ pc' = "ParseHeaders"
            /\ hdrDone' = hdrDone \cup {<<iter, start>>}
            /\ UNCHANGED <<out, ret>>
       ELSE IF Len(buffer') > max_body_size
            THEN /\ SendError(413, wok)
                 /\ UNCHANGED hdrDone
            ELSE UNCHANGED <<pc, hdrDone, out, ret>>
    /\ UNCHANGED <<wire, eof, iter, start, body, keep_alive, content_length,
                   parsed, handled>>
    /\ UNCHANGED notConnVars

\* the header read loop, read returns 0: the client closed the connection
ReadHeadersClosed ==
    /\ pc = "ReadingHeaders"
    /\ Available = 0 /\ eof
    /\ pc' = "Terminated"
    /\ ret' = "Ok"
    /\ UNCHANGED <<wire, eof, pos, iter, start, buffer, body, keep_alive,
                   content_length, out, parsed, handled, hdrDone>>
    /\ UNCHANGED notConnVars

\* the header read loop, read fails (the read timeout expires): `?`
ReadHeadersTimeout ==
    /\ pc = "ReadingHeaders"
    /\ Available = 0 /\ ~eof
    /\ pc' = "Terminated"
    /\ ret' = "Err"
    /\ UNCHANGED <<wire, eof, pos, iter, start, buffer, body, keep_alive,
                   content_length, out, parsed, handled, hdrDone>>
    /\ UNCHANGED notConnVars

\* the keep-alive decision comparing the header value byte for byte
KeepAliveDecision_CaseSensitive(version, headers) ==
    IF version = "HTTP_11"
    THEN ~(/\ HeaderContains(headers, "connection")
           /\ HeaderGet(headers, "connection") = "close")
    ELSE FALSE

\* step 3: keep_alive = match (version, headers.get(CONNECTION)) { ... }
KeepAliveDecision(version, headers) ==
    IF version = "HTTP_11"
    THEN ~(/\ HeaderContains(headers, "connection")
           /\ eq_ignore_ascii_case(HeaderGet(headers, "connection"), "close"))
    ELSE FALSE

\* the chunked test comparing the header value byte for byte
IsChunked_CaseSensitive(headers) ==
    /\ HeaderContains(headers, "transfer-encoding")
    /\ HeaderGet(headers, "transfer-encoding") = "chunked"

\* step 4: headers.get(TRANSFER_ENCODING)
\*           .map(|v| v.as_bytes().eq_ignore_ascii_case(b"chunked")).unwrap_or(false)
IsChunked(headers) ==
    /\ HeaderContains(headers, "transfer-encoding")
    /\ eq_ignore_ascii_case(HeaderGet(headers, "transfer-encoding"), "chunked")

\* step 5: headers.get(CONTENT_LENGTH) ... parse::<usize>().ok().unwrap_or(0)
ContentLength(headers) ==
    IF /\ HeaderContains(headers, "content-length")
       /\ parse_usize(HeaderGet(headers, "content-length")) >= 0
    THEN parse_usize(HeaderGet(headers, "content-length"))
    ELSE 0

\* `while body.len() < content_length`: read again, or go on to dispatch
BodyLoop(b, cl) == IF Len(b) < cl THEN "ReadingBody" ELSE "Dispatching"

\* steps 2 to 5 up to the first body read: split the buffer, parse the
\* header block, decide keep-alive, reject chunked, take Content-Length
ParseHeaders(wok) ==
    /\ pc = "ParseHeaders"
    /\ LET hr == headers_raw(buffer)
           b0 == SubSeq(buffer, header_end(buffer) + 1, Len(buffer))
           temp_request == RequestParse(hr, <<>>)
           ka == KeepAliveDecision(temp_request.version, temp_request.headers)
           cl == ContentLength(temp_request.headers)
       IN IF ~temp_request.ok
          THEN /\ SendError(400, wok)
               /\ UNCHANGED <<body, keep_alive, content_length, parsed>>
          ELSE /\ keep_alive' = ka
               /\ parsed' = Append(parsed, [iter |-> iter, req |-> temp_request,
                                            keep_alive |-> ka])
               /\ IF IsChunked(temp_request.headers)
                  THEN /\ SendError(501, wok)
                       /\ body' = b0
                       /\ UNCHANGED content_length
                  ELSE /\ content_length' = cl
                       /\ body' = b0
                       /\ IF cl > max_body_size
                          THEN SendError(413, wok)
                          ELSE /\ pc' = BodyLoop(b0, cl)
                               /\ UNCHANGED <<out, ret>>
    /\ UNCHANGED <<wire, eof, pos, iter, start, buffer, handled, hdrDone>>
    /\ UNCHANGED notConnVars

\* the body read loop, one read that returns data
ReadBody(n, wok) ==
    /\ pc = "ReadingBody"
    /\ n \in 1..Min(TempLen, Available)
    /\ pos' = pos + n
    /\ body' = body \o Chunk(n)
    /\ IF Len(body') > max_body_size
       THEN SendError(413, wok)
       ELSE /\ pc' = BodyLoop(body', content_length)
            /\ UNCHANGED <<out, ret>>
    /\ UNCHANGED <<wire, eof, iter, start, buffer, keep_alive, content_length,
                   parsed, handled, hdrDone>>
    /\ UNCHANGED notConnVars

\* the body read loop, read returns 0: `break`, the request is dispatched
ReadBodyClosed ==
    /\ pc = "ReadingBody"
    /\ Available = 0 /\ eof
    /\ pc' = "Dispatching"
    /\ UNCHANGED <<wire, eof, pos, iter, start, buffer, body, keep_alive,
                   content_length, out, parsed, handled, hdrDone, ret>>
    /\ UNCHANGED notConnVars

\* the body read loop, read fails (the read timeout expires): `?`
ReadBodyTimeout ==
    /\ pc = "ReadingBody"
    /\ Available = 0 /\ ~eof
    /\ pc' = "Terminated"
    /\ ret' = "Err"
    /\ UNCHANGED <<wire, eof, pos, iter, start, buffer, body, keep_alive,
                   content_length, out, parsed, handled, hdrDone>>
    /\ UNCHANGED notConnVars

\* after a written response: `while keep_alive` goes round again or ends
LoopOrReturn ==
    IF keep_alive
    THEN /\ pc' = "ReadingHeaders"
         /\ iter' = iter + 1
         /\ start' = pos
         /\ buffer' = <<>>
         /\ body' = <<>>
         /\ UNCHANGED ret
    ELSE /\ pc' = "Terminated"
         /\ ret' = "Ok"
         /\ UNCHANGED <<iter, start, buffer, body>>

\* steps 6 and 7: build the final request, service.handle, write the result
Dispatch(r, wok) ==
    /\ pc = "Dispatching"
    /\ r \in ServiceResults
    /\ LET final == RequestParse(headers_raw(buffer), body) IN
       IF ~final.ok
       THEN /\ SendError(400, wok)
            /\ UNCHANGED <<handled, iter, start, buffer, body>>
       ELSE /\ handled' = Append(handled, [iter |-> iter, start |-> start,
                                           req |-> final, result |-> r.kind])
            /\ CASE r.kind = "Response" ->
                      /\ out' = Append(out, [iter |-> iter, status |-> r.status,
                                             close |-> r.close, ok |-> wok])
                      /\ IF ~wok
                         THEN /\ pc' = "Terminated"
                              /\ ret' = "Err"
                              /\ UNCHANGED <<iter, start, buffer, body>>
                         ELSE IF r.close
                              THEN /\ pc' = "Terminated"
                                   /\ ret' = "Ok"
                                   /\ UNCHANGED <<iter, start, buffer, body>>
                              ELSE LoopOrReturn
                 [] r.kind = "Consumed" ->
                      /\ pc' = "Terminated"
                      /\ ret' = "Ok"
                      /\ UNCHANGED <<out, iter, start, buffer, body>>
                 [] r.kind = "Err" ->
                      /\ SendError(500, wok)
                      /\ UNCHANGED <<iter, start, buffer, body>>
    /\ UNCHANGED <<wire, eof, pos, keep_alive, content_length, parsed, hdrDone>>
    /\ UNCHANGED notConnVars

\* `stream` is a parameter of conn_handler, owned by it, and nothing else
\* holds the socket (service.handle is given None): when conn_handler returns
\* the TcpStream is dropped, which closes the connection
StreamDropped == ret # "none"

NextConn ==
    \/ \E n \in 1..TempLen, wok \in BOOLEAN : ReadHeaders(n, wok)
    \/ ReadHeadersClosed
    \/ ReadHeadersTimeout
    \/ \E wok \in BOOLEAN : ParseHeaders(wok)
    \/ \E n \in 1..TempLen, wok \in BOOLEAN : ReadBody(n, wok)
    \/ ReadBodyClosed
    \/ ReadBodyTimeout
    \/ \E r \in ServiceResults, wok \in BOOLEAN : Dispatch(r, wok)

SpecConn == InitConn /\ [][NextConn]_vars

\* ------------------------------------------- AppService::run_middleware
\* str::trim_matches('/') over a path given as a sequence of characters
RECURSIVE TrimStart(_)
TrimStart(s) == IF s # <<>> /\ s[1] = "/" THEN TrimStart(Tail(s)) ELSE s
RECURSIVE TrimEnd(_)
TrimEnd(s) ==
    IF s # <<>> /\ s[Len(s)] = "/" THEN TrimEnd(SubSeq(s, 1, Len(s) - 1)) ELSE s
trim_matches(s) == TrimEnd(TrimStart(s))

\* str::split('/'): the segments between the slashes, empty ones included
RECURSIVE split(_)
split(s) ==
    IF \A i \in 1..Len(s) : s[i] # "/"
    THEN <<s>>
    ELSE LET k == CHOOSE i \in 1..Len(s) :
                     s[i] = "/" /\ \A j \in 1..(i - 1) : s[j] # "/"
         IN <<SubSeq(s, 1, k - 1)>> \o split(SubSeq(s, k + 1, Len(s)))

starts_with_colon(seg) == seg # <<>> /\ seg[1] = ":"

\* match_route keeping the first binding of a repeated name
match_route_FirstWins(pattern, path) ==
    LET pattern_parts == split(trim_matches(pattern))
        path_parts == split(trim_matches(path))
        n == Len(pattern_parts)
    IN IF n # Len(path_parts)
       THEN [ok |-> FALSE, params |-> {}]
       ELSE IF \E i \in 1..n : /\ ~starts_with_colon(pattern_parts[i])
                               /\ pattern_parts[i] # path_parts[i]
            THEN [ok |-> FALSE, params |-> {}]
            ELSE [ok |-> TRUE,
                  params |->
                    {<<Tail(pattern_parts[i]), path_parts[i]>> :
                        i \in {k \in 1..n :
                                 /\ starts_with_colon(pattern_parts[k])
                                 /\ \A j \in 1..(k - 1) :
                                      pattern_parts[j] # pattern_parts[k]}}]

\* AppService::match_route: None is ok = FALSE; params is the HashMap, as a
\* set of <<name, value>> in which the last insert of a name wins
match_route(pattern, path) ==
    LET pattern_parts == split(trim_matches(pattern))
        path_parts == split(trim_matches(path))
        n == Len(pattern_parts)
    IN IF n # Len(path_parts)
       THEN [ok |-> FALSE, params |-> {}]
       ELSE IF \E i \in 1..n : /\ ~starts_with_colon(pattern_parts[i])
                               /\ pattern_parts[i] # path_parts[i]
            THEN [ok |-> FALSE, params |-> {}]
            ELSE [ok |-> TRUE,
                  params |->
                    {<<Tail(pattern_parts[i]), path_parts[i]>> :
                        i \in {k \in 1..n :
                                 /\ starts_with_colon(pattern_parts[k])
                                 /\ \A j \in (k + 1)..n :
                                      pattern_parts[j] # pattern_parts[k]}}]

\* what the handlers of the model do to the response before they return:
\* route k and global middleware k set a status and a body of their own, the
\* error hook sets 503 and its own body
RouteEffect(k) ==
    [status |-> 200 + k, body |-> [src |-> "route", n |-> k, text |-> "handler"]]
GlobalEffect(k) ==
    [status |-> 210 + k, body |-> [src |-> "global", n |-> k, text |-> "handler"]]
HookEffect(k) ==
    [status |-> 503, body |-> [src |-> "hook", n |-> k, text |-> "handler"]]

MiddlewareResults == {"Next", "NextRoute", "End", "Err"}
\* (method, pattern) of a route: an exact match, a capture, another method,
\* another path
RouteShapes ==
    {<<"GET", <<"/", "x">>>>, <<"GET", <<"/", ":", "i">>>>,
     <<"POST", <<"/", "x">>>>, <<"GET", <<"/", "x", "/", "y">>>>}
Routes ==
    {[method |-> sh[1], path |-> sh[2], result |-> r] :
        sh \in RouteShapes, r \in MiddlewareResults}
RouteTables == UNION {[1..n -> Routes] : n \in 0..MaxRoutes}
GlobalTables == UNION {[1..n -> MiddlewareResults] : n \in 0..MaxGlobal}
Requests == {[method |-> "GET", path |-> <<"/", "x", "/">>]}

InitDisp ==
    /\ ConnIdle
    /\ QueueIdle
    /\ PoolIdle
    /\ EngIdle
    /\ ResDefault
    /\ AccIdle
    /\ CtxIdle
    /\ ScopedIdle
    /\ routes \in RouteTables
    /\ middleware \in GlobalTables
    /\ error_handler \in BOOLEAN
    /\ request \in Requests
    /\ dpc = "Global"
    /\ gi = 1
    /\ ri = 1
    /\ response = DefaultResponse
    /\ found = FALSE
    /\ params = {}
    /\ calls = <<>>

\* the global loop taking NextRoute for Next
GlobalFlow_NextRouteContinues(res, hook) ==
    CASE res \in {"Next", "NextRoute"} -> "continue"
      [] res = "End" -> "return"
      [] res = "Err" -> IF hook THEN "continue" ELSE "return"

\* what the global loop does with the result of a middleware: Next falls
\* through to the next pass, NextRoute is `break`, End is `return response`,
\* Err returns only when there is no error handler
GlobalFlow(res, hook) ==
    CASE res = "Next" -> "continue"
      [] res = "NextRoute" -> "break"
      [] res = "End" -> "return"
      [] res = "Err" -> IF hook THEN "continue" ELSE "return"

\* the global phase: one pass of `for middleware in global_middleware`
GlobalStep ==
    /\ dpc = "Global"
    /\ gi <= Len(middleware)
    /\ LET res == middleware[gi]
           flow == GlobalFlow(res, error_handler)
       IN
       /\ response' = IF res # "Err" THEN GlobalEffect(gi)
                      ELSE IF error_handler THEN HookEffect(gi)
                      ELSE EngineResponse(500, "Internal Server Error!")
       /\ gi' = IF flow = "continue" THEN gi + 1 ELSE gi
       /\ dpc' = CASE flow = "continue" -> dpc
                   [] flow = "break" -> "Routes"
                   [] flow = "return" -> "Done"
       /\ calls' = calls \o <<[kind |-> "global", n |-> gi, result |-> res]>>
                     \o (IF res = "Err" /\ error_handler
                         THEN <<[kind |-> "hook", n |-> gi, result |-> "Err"]>>
                         ELSE <<>>)
    /\ UNCHANGED <<routes, middleware, error_handler, request, ri, found, params>>
    /\ UNCHANGED notDispVars

\* the global loop is exhausted: on to the routes
GlobalDone ==
    /\ dpc = "Global"
    /\ gi > Len(middleware)
    /\ dpc' = "Routes"
    /\ UNCHANGED <<routes, middleware, error_handler, request, gi, ri, response,
                   found, params, calls>>
    /\ UNCHANGED notDispVars

\* the route phase: one pass of `for route in routes.iter().filter(..)`,
\* the routes of another method passed over
RouteStep ==
    /\ dpc = "Routes"
    /\ ri <= Len(routes)
    /\ LET route == routes[ri]
           m == match_route(route.path, request.path)
       IN IF route.method # request.method \/ ~m.ok
          THEN /\ ri' = ri + 1
               /\ UNCHANGED <<dpc, response, found, params, calls>>
          ELSE /\ params' = m.params
               /\ calls' = calls
                     \o <<[kind |-> "route", n |-> ri, result |-> route.result]>>
                     \o (IF route.result = "Err" /\ error_handler
                         THEN <<[kind |-> "hook", n |-> ri, result |-> "Err"]>>
                         ELSE <<>>)
               /\ CASE route.result = "NextRoute" ->
                         /\ response' = RouteEffect(ri)
                         /\ ri' = ri + 1
                         /\ UNCHANGED <<dpc, found>>
                    [] route.result \in {"End", "Next"} ->
                         /\ response' = RouteEffect(ri)
                         /\ found' = TRUE
                         /\ dpc' = "AfterRoutes"
                         /\ UNCHANGED ri
                    [] route.result = "Err" ->
                         IF error_handler
                         THEN /\ response' = HookEffect(ri)
                              /\ ri' = ri + 1
                              /\ UNCHANGED <<dpc, found>>
                         ELSE /\ response' =
                                    EngineResponse(500, "Internal Server Error")
                              /\ dpc' = "AfterRoutes"
                              /\ UNCHANGED <<ri, found>>
    /\ UNCHANGED <<routes, middleware, error_handler, request, gi>>
    /\ UNCHANGED notDispVars

\* the 404 fallback with its test inverted
NotFoundFallback_Inverted(fnd, resp) ==
    IF fnd THEN EngineResponse(404, "404 Not Found") ELSE resp

\* `if !found { response.set_status(404).send_text("404 Not Found") }`
NotFoundFallback(fnd, resp) ==
    IF ~fnd THEN EngineResponse(404, "404 Not Found") ELSE resp

\* after the route loop, left by `break` or exhausted: the 404 fallback and
\* the return of the response
Finish ==
    /\ \/ dpc = "AfterRoutes"
       \/ dpc = "Routes" /\ ri > Len(routes)
    /\ response' = NotFoundFallback(found, response)
    /\ dpc' = "Done"
    /\ UNCHANGED <<routes, middleware, error_handler, request, gi, ri, found,
                   params, calls>>
    /\ UNCHANGED notDispVars

NextDisp ==
    \/ GlobalStep
    \/ GlobalDone
    \/ RouteStep
    \/ Finish

SpecDisp == InitDisp /\ [][NextDisp]_vars

\* ---------------------------------------------- AppService::match_route
\* every sequence over S of length at most n
SeqsUpTo(S, n) == UNION {[1..k -> S] : k \in 0..n}
\* the patterns an application may register and the paths a request may carry
Patterns == SeqsUpTo({"/", ":", "i", "x"}, MaxPathLen)
Paths == {p \in SeqsUpTo({"/", "x", "y"}, MaxPathLen) : p # <<>> /\ p[1] = "/"}

\* one route of any pattern, a request of any path, at most one global
\* middleware
InitMatch ==
    /\ ConnIdle
    /\ QueueIdle
    /\ PoolIdle
    /\ EngIdle
    /\ ResDefault
    /\ AccIdle
    /\ CtxIdle
    /\ ScopedIdle
    /\ \E pat \in Patterns, r \in {"Next", "NextRoute"} :
          routes = <<[method |-> "GET", path |-> pat, result |-> r]>>
    /\ middleware \in {<<>>, <<"Next">>}
    /\ error_handler = FALSE
    /\ \E pth \in Paths : request = [method |-> "GET", path |-> pth]
    /\ dpc = "Global"
    /\ gi = 1
    /\ ri = 1
    /\ response = DefaultResponse
    /\ found = FALSE
    /\ params = {}
    /\ calls = <<>>

SpecMatch == InitMatch /\ [][NextDisp]_vars

\* ------------------------------------------------------------ Queue<T>
Producers == 1..NProducers
Consumers == 1..NConsumers

\* QueueFlow::Value(item), the item being push number k of producer p
Value(p, k) == [tag |-> "Value", p |-> p, k |-> k]
\* QueueFlow::Unblock
Unblock == [tag |-> "Unblock", p |-> 0, k |-> 0]

InitQueue ==
    /\ ConnIdle
    /\ DispIdle
    /\ PoolIdle
    /\ EngIdle
    /\ ResDefault
    /\ AccIdle
    /\ CtxIdle
    /\ ScopedIdle
    /\ queue = <<>>
    /\ consumer = [c \in Consumers |-> "ready"]
    /\ next_item = [p \in Producers |-> 1]
    /\ unblocks = 0
    /\ shutdown_flag = FALSE
    /\ popped = <<>>

\* push_back at the wrong end
push_back_AtFront(qu, x) == <<x>> \o qu
\* VecDeque::push_back
push_back(qu, x) == Append(qu, x)

\* pop_front that leaves an Unblock entry at the front
pop_front_KeepSentinel(qu) == IF Head(qu).tag = "Unblock" THEN qu ELSE Tail(qu)
\* VecDeque::pop_front: the queue without its front entry
pop_front(qu) == Tail(qu)

\* notify_one that wakes nobody
notify_one_Nobody(cs) == {cs}
\* Condvar::notify_one: the states of the consumers it may leave behind, one
\* parked thread made runnable, or nothing changed when none is parked
notify_one(cs) ==
    IF \E c \in DOMAIN cs : cs[c] = "parked"
    THEN {[cs EXCEPT ![c] = "ready"] : c \in {d \in DOMAIN cs : cs[d] = "parked"}}
    ELSE {cs}

\* Queue::push by producer p
Push(p) ==
    /\ next_item[p] <= MaxPush
    /\ queue' = push_back(queue, Value(p, next_item[p]))
    /\ consumer' \in notify_one(consumer)
    /\ next_item' = [next_item EXCEPT ![p] = @ + 1]
    /\ UNCHANGED <<unblocks, shutdown_flag, popped>>
    /\ UNCHANGED notQueueVars

\* Server::unblock, which is Queue::unblock
UnblockCall ==
    /\ unblocks < MaxUnblock
    /\ queue' = push_back(queue, Unblock)
    /\ consumer' \in notify_one(consumer)
    /\ unblocks' = unblocks + 1
    /\ UNCHANGED <<next_item, shutdown_flag, popped>>
    /\ UNCHANGED notQueueVars

\* Server::shutdown: one Queue::unblock, then the flag
Shutdown ==
    /\ ~shutdown_flag
    /\ queue' = push_back(queue, Unblock)
    /\ consumer' \in notify_one(consumer)
    /\ shutdown_flag' = TRUE
    /\ UNCHANGED <<next_item, unblocks, popped>>
    /\ UNCHANGED notQueueVars

\* Queue::pop with the lock held and an entry at the front: Some(v) for a
\* Value, after which the thread calls pop again, None for an Unblock
PopTake(c) ==
    /\ consumer[c] = "ready"
    /\ queue # <<>>
    /\ popped' = Append(popped, [c |-> c, entry |-> Head(queue)])
    /\ queue' = pop_front(queue)
    /\ consumer' = IF Head(queue).tag = "Unblock"
                   THEN [consumer EXCEPT ![c] = "done"]
                   ELSE consumer
    /\ UNCHANGED <<next_item, unblocks, shutdown_flag>>
    /\ UNCHANGED notQueueVars

\* Queue::pop with the lock held and the queue empty: condvar.wait, which
\* has no timeout
PopWait(c) ==
    /\ consumer[c] = "ready"
    /\ queue = <<>>
    /\ consumer' = [consumer EXCEPT ![c] = "parked"]
    /\ UNCHANGED <<queue, next_item, unblocks, shutdown_flag, popped>>
    /\ UNCHANGED notQueueVars

NextQueue ==
    \/ \E p \in Producers : Push(p)
    \/ UnblockCall
    \/ Shutdown
    \/ \E c \in Consumers : PopTake(c)
    \/ \E c \in Consumers : PopWait(c)

SpecQueue == InitQueue /\ [][NextQueue]_vars

\* a thread that can run does run
SpecQueueFair ==
    /\ SpecQueue
    /\ \A c \in Consumers : WF_vars(PopTake(c) \/ PopWait(c))

\* ------------------------------------------------------------ TaskPool
\* TaskPool::with_config: min_workers workers are added, each waiting in
\* recv_timeout
InitPool ==
    /\ ConnIdle
    /\ DispIdle
    /\ QueueIdle
    /\ EngIdle
    /\ ResDefault
    /\ AccIdle
    /\ CtxIdle
    /\ ScopedIdle
    /\ max_workers \in 0..MaxMaxWorkers
    /\ min_workers \in 0..MaxMinWorkers
    /\ channel = <<>>
    /\ active_workers = min_workers
    /\ idle_workers = 0
    /\ workers = [w \in 1..min_workers |-> [st |-> "recv", t |-> 0, last |-> "none"]]
    /\ submitted = 0
    /\ caller = "idle"
    /\ dropped = FALSE

\* the worker threads that have not left their loop
Live == {w \in 1..Len(workers) : workers[w].st # "exited"}

\* add_task, first half: self.sender.send(task)
AddTaskSend ==
    /\ ~dropped
    /\ caller = "idle"
    /\ submitted < MaxTasks
    /\ channel' = Append(channel, "Task")
    /\ submitted' = submitted + 1
    /\ caller' = "sent"
    /\ UNCHANGED <<max_workers, min_workers, active_workers, idle_workers,
                   workers, dropped>>
    /\ UNCHANGED notPoolVars

ShouldSpawn_Never(idle, active, max) == FALSE

\* the test of add_task
ShouldSpawn(idle, active, max) == idle = 0 /\ active < max

\* add_task, second half: the test of the two counters and add_worker, which
\* counts the worker in active_workers and spawns its thread
AddTaskCheck ==
    /\ caller = "sent"
    /\ IF ShouldSpawn(idle_workers, active_workers, max_workers)
       THEN /\ active_workers' = active_workers + 1
            /\ workers' = Append(workers, [st |-> "recv", t |-> 0, last |-> "none"])
       ELSE UNCHANGED <<active_workers, workers>>
    /\ caller' = "idle"
    /\ UNCHANGED <<max_workers, min_workers, channel, idle_workers, submitted,
                   dropped>>
    /\ UNCHANGED notPoolVars

\* receiver.recv_timeout returned Ok(job): Job::Stop ends the loop
WorkerRecv(w) ==
    /\ workers[w].st = "recv"
    /\ channel # <<>>
    /\ channel' = Tail(channel)
    /\ workers' = [workers EXCEPT ![w] =
                     IF Head(channel) = "Stop"
                     THEN [@ EXCEPT !.st = "exited", !.t = 0]
                     ELSE [@ EXCEPT !.st = "got_task", !.t = 0]]
    /\ UNCHANGED <<max_workers, min_workers, active_workers, idle_workers,
                   submitted, caller, dropped>>
    /\ UNCHANGED notPoolVars

\* idle_workers.fetch_sub(1), then the task runs
WorkerStart(w) ==
    /\ workers[w].st = "got_task"
    /\ idle_workers' = idle_workers - 1
    /\ workers' = [workers EXCEPT ![w].st = "running"]
    /\ UNCHANGED <<max_workers, min_workers, channel, active_workers, submitted,
                   caller, dropped>>
    /\ UNCHANGED notPoolVars

\* how a task ends
TaskOutcomes == {"returned", "panicked"}

catch_unwind_Propagates(outcome) ==
    IF outcome = "panicked" THEN "unwinding" ELSE "Ok"

\* std::panic::catch_unwind(AssertUnwindSafe(task)): a panic of the task
\* becomes an Err value
catch_unwind(outcome) ==
    IF outcome = "panicked" THEN "Err" ELSE "Ok"

\* the task returned or panicked: `let _ = catch_unwind(..)` drops the result,
\* then idle_workers.fetch_add(1) and back to recv.  A panic that nothing
\* catches unwinds the thread out of its loop.
WorkerFinish(w) ==
    /\ workers[w].st = "running"
    /\ \E outcome \in TaskOutcomes :
          IF catch_unwind(outcome) = "unwinding"
          THEN /\ workers' = [workers EXCEPT ![w].st = "exited",
                                              ![w].last = outcome]
               /\ UNCHANGED idle_workers
          ELSE /\ idle_workers' = idle_workers + 1
               /\ workers' = [workers EXCEPT ![w].st = "recv",
                                              ![w].last = outcome]
    /\ UNCHANGED <<max_workers, min_workers, channel, active_workers, submitted,
                   caller, dropped>>
    /\ UNCHANGED notPoolVars

\* receiver.recv_timeout returned Err: the loop ends when
\* idle_workers.fetch_sub(1) returns 1
WorkerTimeout(w) ==
    /\ workers[w].st = "recv"
    /\ channel = <<>>
    /\ workers[w].t < MaxIdleTimeouts
    /\ idle_workers' = idle_workers - 1
    /\ workers' = [workers EXCEPT ![w] =
                     IF idle_workers = 1
                     THEN [@ EXCEPT !.st = "exited", !.t = 0]
                     ELSE [@ EXCEPT !.t = @ + 1]]
    /\ UNCHANGED <<max_workers, min_workers, channel, active_workers, submitted,
                   caller, dropped>>
    /\ UNCHANGED notPoolVars

Stops_OneShort(n) == [i \in 1..(n - 1) |-> "Stop"]

\* for _ in 0..n { sender.send(Job::Stop) }
Stops(n) == [i \in 1..n |-> "Stop"]

\* Drop for TaskPool: one Job::Stop per worker counted in active_workers
DropPool ==
    /\ ~dropped
    /\ caller = "idle"
    /\ channel' = channel \o Stops(active_workers)
    /\ dropped' = TRUE
    /\ UNCHANGED <<max_workers, min_workers, active_workers, idle_workers,
                   workers, submitted, caller>>
    /\ UNCHANGED notPoolVars

NextPool ==
    \/ AddTaskSend
    \/ AddTaskCheck
    \/ \E w \in 1..Len(workers) : WorkerRecv(w)
    \/ \E w \in 1..Len(workers) : WorkerStart(w)
    \/ \E w \in 1..Len(workers) : WorkerFinish(w)
    \/ \E w \in 1..Len(workers) : WorkerTimeout(w)
    \/ DropPool

SpecPool == InitPool /\ [][NextPool]_vars

\* every worker is a thread of its own and is scheduled, and so is the
\* thread inside add_task
SpecPoolFair ==
    /\ SpecPool
    /\ \A w \in 1..MaxMinWorkers + MaxMaxWorkers :
          WF_vars(/\ w \in 1..Len(workers)
                  /\ (WorkerRecv(w) \/ WorkerStart(w) \/ WorkerFinish(w)))
    /\ WF_vars(AddTaskCheck)

\* ------------------------------------- engine.rs: start and for_each
\* a connection was accepted: its coroutine is about to read, for_each is
\* about to call recv
InitEngine ==
    /\ ConnIdle
    /\ DispIdle
    /\ QueueIdle
    /\ PoolIdle
    /\ ResDefault
    /\ AccIdle
    /\ CtxIdle
    /\ ScopedIdle
    /\ client = <<>>
    /\ nread = 0
    /\ reader = "reading"
    /\ messages = <<>>
    /\ foreach = "recv"
    /\ current = NoRequest
    /\ sock_shutdown = FALSE
    /\ socklog = <<>>
    /\ peer = 0

\* the client sends its next request, with or without Connection: close,
\* whether or not the earlier ones were answered
ClientSend(close) ==
    /\ Len(client) < MaxRequests
    /\ client' = Append(client, [id |-> Len(client) + 1, close |-> close])
    /\ UNCHANGED <<nread, reader, messages, foreach, current, sock_shutdown,
                   socklog, peer>>
    /\ UNCHANGED notEngVars

\* buf_reader.read returned Ok(n), n > 0: when the bytes parse, a clone of the
\* stream is attached (if try_clone succeeds) and the request is pushed; the
\* loop then reads again
ReaderRead(parse_ok, clone_ok) ==
    /\ reader = "reading"
    /\ ~sock_shutdown
    /\ nread < Len(client)
    /\ nread' = nread + 1
    /\ socklog' = Append(socklog, [op |-> "read", by |-> "reader", conn |-> 1,
                                   id |-> nread + 1, pushed |-> parse_ok,
                                   close |-> client[nread + 1].close,
                                   res |-> "Ok"])
    /\ messages' = IF parse_ok
                   THEN Append(messages, [id |-> nread + 1, conn |-> 1,
                                          close |-> client[nread + 1].close,
                                          has_stream |-> clone_ok])
                   ELSE messages
    /\ UNCHANGED <<client, reader, foreach, current, sock_shutdown, peer>>
    /\ UNCHANGED notEngVars

\* buf_reader.read returned Ok(0) or an error: on WouldBlock (the read
\* timeout) and ConnectionReset the stream is shut down; the loop ends and
\* the coroutine's handles are dropped
ReaderStop(kind) ==
    /\ reader = "reading"
    /\ nread = Len(client)
    /\ kind \in {"Ok0", "WouldBlock", "ConnectionReset", "Other"}
    /\ reader' = "exited"
    /\ sock_shutdown' = (sock_shutdown \/ kind \in {"WouldBlock", "ConnectionReset"})
    /\ UNCHANGED <<client, nread, messages, foreach, current, socklog, peer>>
    /\ UNCHANGED notEngVars

\* for_each: engine.recv() returned a request
ForEachRecv ==
    /\ foreach = "recv"
    /\ messages # <<>>
    /\ current' = Head(messages)
    /\ messages' = Tail(messages)
    /\ foreach' = "handling"
    /\ UNCHANGED <<client, nread, reader, sock_shutdown, socklog, peer>>
    /\ UNCHANGED notEngVars

\* for_each: handle(&mut request), then the response is written to the
\* stream taken from the request.  w is how the write went.
ForEachRespond(w) ==
    /\ foreach = "handling"
    /\ w \in {"Ok", "WriteErr", "BrokenPipe", "FlushErr"}
    /\ (current.conn = 1 /\ sock_shutdown) => w # "Ok"
    /\ IF ~current.has_stream
       THEN /\ foreach' = "recv"
            /\ UNCHANGED socklog
       ELSE /\ socklog' = Append(socklog, [op |-> "write", by |-> "for_each",
                                           conn |-> current.conn,
                                           id |-> current.id, pushed |-> FALSE,
                                           close |-> current.close, res |-> w])
            /\ foreach' = CASE w = "WriteErr" -> "returned"
                            [] w = "BrokenPipe" -> "recv"
                            [] w = "FlushErr" -> "returned"
                            [] w = "Ok" -> IF current.close THEN "returned"
                                           ELSE "recv"
    /\ current' = NoRequest
    /\ UNCHANGED <<client, nread, reader, messages, sock_shutdown, peer>>
    /\ UNCHANGED notEngVars

\* the coroutine of a second connection: its read returned a request, with
\* or without Connection: close, that parsed; it is pushed on the one queue
PeerPush(close, clone_ok) ==
    /\ peer < MaxPeerRequests
    /\ peer' = peer + 1
    /\ messages' = Append(messages, [id |-> peer + 1, conn |-> 2,
                                     close |-> close, has_stream |-> clone_ok])
    /\ UNCHANGED <<client, nread, reader, foreach, current, sock_shutdown,
                   socklog>>
    /\ UNCHANGED notEngVars

NextEngine ==
    \/ \E close \in BOOLEAN : ClientSend(close)
    \/ \E parse_ok \in BOOLEAN, clone_ok \in BOOLEAN : ReaderRead(parse_ok, clone_ok)
    \/ \E kind \in {"Ok0", "WouldBlock", "ConnectionReset", "Other"} : ReaderStop(kind)
    \/ ForEachRecv
    \/ \E w \in {"Ok", "WriteErr", "BrokenPipe", "FlushErr"} : ForEachRespond(w)
    \/ \E close \in BOOLEAN, clone_ok \in BOOLEAN : PeerPush(close, clone_ok)

SpecEngine == InitEngine /\ [][NextEngine]_vars

\* the components that hold a live handle to the socket of the first
\* connection: the connection
\* coroutine (`stream` and the clone inside `buf_reader`), the queue (the clone
\* attached to a queued request) and for_each (the clone of the request it
\* handles)
Holders ==
    (IF reader = "reading" THEN {"reader"} ELSE {})
    \cup (IF \E j \in 1..Len(messages) :
                 messages[j].conn = 1 /\ messages[j].has_stream
          THEN {"queue"} ELSE {})
    \cup (IF foreach = "handling" /\ current.conn = 1 /\ current.has_stream
          THEN {"for_each"} ELSE {})

\* ------------------------------------------------------------ Response
InitRes ==
    /\ ConnIdle
    /\ DispIdle
    /\ QueueIdle
    /\ PoolIdle
    /\ EngIdle
    /\ ResDefault
    /\ AccIdle
    /\ CtxIdle
    /\ ScopedIdle

\* HeaderName::from_str: the name, lower-cased
HeaderName_from_str(k) ==
    CASE k = "Content-Type" -> "content-type"
      [] k = "CONTENT-LENGTH" -> "content-length"
      [] k = "Date" -> "date"
      [] k = "X-Custom" -> "x-custom"
      [] OTHER -> k

\* itoa::Buffer::format: the decimal digits of n
Digit(d) ==
    CASE d = 0 -> "0" [] d = 1 -> "1" [] d = 2 -> "2" [] d = 3 -> "3"
      [] d = 4 -> "4" [] d = 5 -> "5" [] d = 6 -> "6" [] d = 7 -> "7"
      [] d = 8 -> "8" [] d = 9 -> "9"
RECURSIVE format(_)
format(n) == IF n < 10 THEN <<Digit(n)>>
             ELSE format(n \div 10) \o <<Digit(n % 10)>>
\* Response::len_to_header_value
len_to_header_value(len) == format(len)

\* HeaderMap::insert: the value replaces the one stored under the name
insert(h, k, v) == [h EXCEPT ![k] = v]

set_common_headers_IfAbsent(h, content_type, len) ==
    LET h1 == IF content_type # Absent /\ h["content-type"] = Absent
              THEN insert(h, "content-type", content_type) ELSE h
    IN IF h1["content-length"] = Absent
       THEN insert(h1, "content-length", len_to_header_value(len)) ELSE h1

\* Response::set_common_headers; content_type = Absent stands for None
set_common_headers(h, content_type, len) ==
    LET h1 == IF content_type # Absent
              THEN insert(h, "content-type", content_type) ELSE h
    IN insert(h1, "content-length", len_to_header_value(len))

\* the lengths of the bodies a handler passes, of the fixed texts of
\* response.rs, and of the Location values of the model
DataLens == 0..MaxDataLen
InternalServerErrorLen == 21
MetadataErrorLen == 29
FileTooLargeLen == 67
FileReadErrorLen == 39
RedirectingToLen == 15
Locations == {[url |-> "/a", len |-> 2], [url |-> "/home", len |-> 5]}

\* what add_header is called with
HeaderArgs ==
    {<<"Content-Type", <<"application/xml">>>>, <<"CONTENT-LENGTH", <<"5">>>>,
     <<"Date", <<"Tue, 1 Jan 2030 00:00:00 +0000">>>>,
     <<"X-Custom", <<"test">>>>}

\* one more operation is called on the Response, which is all that happens
Logged(op, arg) ==
    /\ Len(res_ops) < MaxOps
    /\ res_ops' = Append(res_ops, [name |-> op, arg |-> arg])
    /\ UNCHANGED notResVars

\* Response::add_header
add_header(kv) ==
    /\ res_headers' = insert(res_headers, HeaderName_from_str(kv[1]), kv[2])
    /\ Logged("add_header", kv[1])
    /\ UNCHANGED <<res_status, res_body, res_raw>>

\* Response::send_text
send_text(len) ==
    /\ res_body' = Some("data", len)
    /\ res_headers' = set_common_headers(res_headers,
                                         <<"text/plain;charset=utf-8">>, len)
    /\ Logged("send_text", "")
    /\ UNCHANGED <<res_status, res_raw>>

\* Response::send_bytes
send_bytes(len) ==
    /\ res_body' = Some("data", len)
    /\ res_headers' = set_common_headers(res_headers, Absent, len)
    /\ Logged("send_bytes", "")
    /\ UNCHANGED <<res_status, res_raw>>

\* Response::send_html
send_html(len) ==
    /\ res_body' = Some("data", len)
    /\ res_headers' = insert(insert(res_headers, "content-type", <<"text/html">>),
                             "content-length", len_to_header_value(len))
    /\ Logged("send_html", "")
    /\ UNCHANGED <<res_status, res_raw>>

\* Response::send_json; ok is whether serde_json::to_string succeeded
send_json(ok, len) ==
    /\ IF ok
       THEN /\ res_body' = Some("data", len)
            /\ res_headers' =
                 insert(insert(res_headers, "content-type", <<"application/json">>),
                        "content-length", len_to_header_value(len))
            /\ UNCHANGED res_status
       ELSE /\ res_status' = 500
            /\ res_body' = Some("Internal Server Error", InternalServerErrorLen)
            /\ res_headers' =
                 insert(insert(res_headers, "content-type", <<"text/plain">>),
                        "content-length",
                        len_to_header_value(InternalServerErrorLen))
    /\ Logged("send_json", IF ok THEN "Ok" ELSE "Err")
    /\ UNCHANGED res_raw

\* Response::send_file; how is what the file system did
send_file(how, len) ==
    /\ how \in {"metadata_err", "too_large", "Ok", "read_err"}
    /\ CASE how = "metadata_err" ->
              /\ res_status' = 500
              /\ res_body' = Some("Failed to read file metadata.",
                                  MetadataErrorLen)
              /\ UNCHANGED res_headers
         [] how = "too_large" ->
              /\ res_status' = 413
              /\ res_body' = Some("File size exceeds 4MB limit.",
                                  FileTooLargeLen)
              /\ UNCHANGED res_headers
         [] how = "Ok" ->
              /\ res_body' = Some("data", len)
              /\ res_headers' = insert(res_headers, "content-length",
                                       len_to_header_value(len))
              /\ UNCHANGED res_status
         [] how = "read_err" ->
              /\ res_status' = 500
              /\ res_body' = Some("Internal Server Error during file read.",
                                  FileReadErrorLen)
              /\ UNCHANGED res_headers
    /\ Logged("send_file", how)
    /\ UNCHANGED res_raw

\* Response::redirect
redirect(location, permanent) ==
    /\ res_status' = IF permanent THEN 301 ELSE 302
    /\ res_body' = Some("Redirecting to", RedirectingToLen + location.len)
    /\ res_headers' =
         insert(insert(res_headers, "location", <<location.url>>),
                "content-length",
                len_to_header_value(RedirectingToLen + location.len))
    /\ Logged("redirect", location.url)
    /\ UNCHANGED res_raw

\* Response::to_raw: the status, the headers of the map, then `date` if the
\* map has none and `content-length` if the map has none and the body is not
\* empty, then the body
to_raw(st, h, b) ==
    LET body_len == IF b.some THEN b.len ELSE 0
        h1 == IF h["date"] = Absent THEN insert(h, "date", <<"now">>) ELSE h
        h2 == IF h["content-length"] = Absent /\ body_len > 0
              THEN insert(h1, "content-length", format(body_len)) ELSE h1
    IN <<[status |-> st, headers |-> h2, body_len |-> body_len]>>

ToRaw ==
    /\ res_raw' = to_raw(res_status, res_headers, res_body)
    /\ Logged("to_raw", "")
    /\ UNCHANGED <<res_status, res_headers, res_body>>

NextRes ==
    \/ \E kv \in HeaderArgs : add_header(kv)
    \/ \E len \in DataLens : send_text(len)
    \/ \E len \in DataLens : send_bytes(len)
    \/ \E len \in DataLens : send_html(len)
    \/ \E ok \in BOOLEAN, len \in DataLens : send_json(ok, len)
    \/ \E how \in {"metadata_err", "too_large", "Ok", "read_err"},
          len \in DataLens : send_file(how, len)
    \/ \E location \in Locations, permanent \in BOOLEAN :
          redirect(location, permanent)
    \/ ToRaw

SpecRes == InitRes /\ [][NextRes]_vars

\* ------------------------------------------------------- Server::run
\* Server::run has bound the listener and enters its loop
InitAccept ==
    /\ ConnIdle
    /\ DispIdle
    /\ QueueIdle
    /\ PoolIdle
    /\ EngIdle
    /\ ResDefault
    /\ CtxIdle
    /\ ScopedIdle
    /\ running = TRUE
    /\ acceptor = "accepting"
    /\ accepts = 0
    /\ conns = <<>>
    /\ panics = 0

\* listener.accept() returned: Ok spawns a coroutine for the connection, Err
\* is logged; the loop goes round
Accept(ok) ==
    /\ acceptor = "accepting"
    /\ running
    /\ accepts < MaxAccepts
    /\ accepts' = accepts + 1
    /\ conns' = IF ok
                THEN Append(conns, [st |-> "serving", after |-> panics,
                                    fin |-> 0])
                ELSE conns
    /\ UNCHANGED <<running, acceptor, panics>>
    /\ UNCHANGED notAccVars

\* Server::shutdown
ServerShutdown ==
    /\ running
    /\ running' = FALSE
    /\ UNCHANGED <<acceptor, accepts, conns, panics>>
    /\ UNCHANGED notAccVars

\* `while self.running.load(..)` finds the flag cleared: run returns
AcceptorReturn ==
    /\ acceptor = "accepting"
    /\ ~running
    /\ acceptor' = "returned"
    /\ UNCHANGED <<running, accepts, conns, panics>>
    /\ UNCHANGED notAccVars

\* how Self::conn_handler ends
HandlerOutcomes == {"Ok", "IoErr", "panicked"}

\* the coroutine of connection c: catch_unwind around conn_handler, then the
\* match on its result; the coroutine ends and its stream is dropped.  A
\* panic that leaves the coroutine takes the runtime down: the accept loop
\* and the other coroutines with it.
ConnEnd(c, outcome) ==
    /\ conns[c].st = "serving"
    /\ outcome \in HandlerOutcomes
    /\ panics' = panics + (IF outcome = "panicked" THEN 1 ELSE 0)
    /\ IF catch_unwind(outcome) = "unwinding"
       THEN /\ acceptor' = "dead"
            /\ conns' = [i \in 1..Len(conns) |->
                           IF conns[i].st = "serving"
                           THEN [conns[i] EXCEPT !.st = "killed",
                                                 !.fin = panics']
                           ELSE conns[i]]
       ELSE /\ conns' = [conns EXCEPT ![c].st = outcome, ![c].fin = panics']
            /\ UNCHANGED acceptor
    /\ UNCHANGED <<running, accepts>>
    /\ UNCHANGED notAccVars

NextAccept ==
    \/ \E ok \in BOOLEAN : Accept(ok)
    \/ ServerShutdown
    \/ AcceptorReturn
    \/ \E c \in 1..Len(conns), outcome \in HandlerOutcomes : ConnEnd(c, outcome)

SpecAccept == InitAccept /\ [][NextAccept]_vars

\* ------------------------------------------------------------ AppContext
\* AppContext::new(): one allocation holding an empty map, one handle to it
InitCtx ==
    /\ ConnIdle
    /\ DispIdle
    /\ QueueIdle
    /\ PoolIdle
    /\ EngIdle
    /\ ResDefault
    /\ AccIdle
    /\ ScopedIdle
    /\ registries = <<[map |-> HashMap_new, w |-> 0, r |-> {}]>>
    /\ handles = <<1>>
    /\ cthreads = [t \in 1..NCtxThreads |-> IdleThread]
    /\ spec_map = [T \in Types |-> <<>>]
    /\ last_return = NoReturn

\* a clone that allocates a registry of its own
Arc_clone_Deep(ptr, fresh) == fresh

\* Arc::clone of `inner`: a pointer to the same allocation
Arc_clone(ptr, fresh) == ptr

\* #[derive(Clone)] on AppContext: the clone's `inner` is Arc::clone of the
\* original's
AppContext_clone(h) ==
    /\ h \in 1..Len(handles)
    /\ Len(handles) < MaxHandles
    /\ LET ptr == Arc_clone(handles[h], Len(registries) + 1) IN
       /\ handles' = Append(handles, ptr)
       /\ registries' = IF ptr > Len(registries)
                        THEN Append(registries,
                                    [registries[handles[h]] EXCEPT !.w = 0, !.r = {}])
                        ELSE registries
    /\ UNCHANGED <<cthreads, spec_map, last_return>>
    /\ UNCHANGED notCtxVars

\* Arc::new(value) stored as Arc<dyn Any>, the type of the value forgotten
Arc_new_Erased(T, value) == <<[ty |-> "dyn Any", v |-> value]>>

\* Arc::new(value) for a value of type T, held as Arc<dyn Any + Send + Sync>:
\* the value keeps its concrete type
Arc_new(T, value) == <<[ty |-> T, v |-> value]>>

\* an insert that drops the other entries
map_insert_Evicting(map, k, a) == [x \in DOMAIN map |-> IF x = k THEN a ELSE <<>>]

\* HashMap::insert, HashMap::remove, HashMap::get (an Option: <<>> is None)
map_insert(map, k, a) == [map EXCEPT ![k] = a]
map_remove(map, k) == [map EXCEPT ![k] = <<>>]
map_get(map, k) == map[k]

\* Arc::downcast::<T>(arc_any).ok(): the value when its concrete type is T
downcast(T, arc_any) ==
    IF arc_any # <<>> /\ arc_any[1].ty = T THEN <<arc_any[1].v>> ELSE <<>>

\* try_get_state::<T> on the map read: get, `?`, clone, downcast
try_get_state(map, T) ==
    LET arc_any == map_get(map, TypeId_of(T)) IN
    IF arc_any = <<>> THEN <<>> ELSE downcast(T, arc_any)

\* Option::expect
expect(opt) == IF opt = <<>> THEN <<"panicked">> ELSE opt

\* get_state::<T>: try_get_state::<T>().expect(..)
get_state(map, T) == expect(try_get_state(map, T))

\* self.inner.write() of set_state and remove_state returned: no other thread
\* holds the lock
LockWrite(t, h, op, T, v) ==
    /\ cthreads[t].pc = "idle"
    /\ h \in 1..Len(handles)
    /\ op \in {"set_state", "remove_state"}
    /\ LET i == handles[h] IN
       /\ registries[i].w = 0 /\ registries[i].r = {}
       /\ registries' = [registries EXCEPT ![i].w = t]
       /\ cthreads' = [cthreads EXCEPT ![t] =
                         [pc |-> "locked", op |-> op, ty |-> T,
                          v |-> IF op = "set_state" THEN v ELSE 0, i |-> i]]
    /\ UNCHANGED <<handles, spec_map, last_return>>
    /\ UNCHANGED notCtxVars

\* self.inner.read() of try_get_state returned: no thread holds the write lock
LockRead(t, h, T) ==
    /\ cthreads[t].pc = "idle"
    /\ h \in 1..Len(handles)
    /\ LET i == handles[h] IN
       /\ registries[i].w = 0
       /\ registries' = [registries EXCEPT ![i].r = @ \cup {t}]
       /\ cthreads' = [cthreads EXCEPT ![t] =
                         [pc |-> "locked", op |-> "try_get_state", ty |-> T,
                          v |-> 0, i |-> i]]
    /\ UNCHANGED <<handles, spec_map, last_return>>
    /\ UNCHANGED notCtxVars

\* set_state under the write lock: map.insert(TypeId::of::<T>(),
\* Arc::new(value)), the guard dropped on return
SetState(t) ==
    /\ cthreads[t].pc = "locked" /\ cthreads[t].op = "set_state"
    /\ LET c == cthreads[t] IN
       /\ registries' = [registries EXCEPT
                           ![c.i].map = map_insert(@, TypeId_of(c.ty),
                                                   Arc_new(c.ty, c.v)),
                           ![c.i].w = 0]
       /\ spec_map' = [spec_map EXCEPT ![c.ty] = <<c.v>>]
       /\ cthreads' = [cthreads EXCEPT ![t].pc = "idle", ![t].i = 0]
       /\ last_return' = [op |-> "set_state", ty |-> c.ty, val |-> <<>>]
    /\ UNCHANGED handles
    /\ UNCHANGED notCtxVars

\* remove_state under the write lock: map.remove(&TypeId::of::<T>()).is_some()
RemoveState(t) ==
    /\ cthreads[t].pc = "locked" /\ cthreads[t].op = "remove_state"
    /\ LET c == cthreads[t]
           k == TypeId_of(c.ty)
       IN
       /\ registries' = [registries EXCEPT ![c.i].map = map_remove(@, k),
                                           ![c.i].w = 0]
       /\ last_return' = [op |-> "remove_state", ty |-> c.ty,
                          val |-> <<map_get(registries[c.i].map, k) # <<>>>>]
       /\ spec_map' = [spec_map EXCEPT ![c.ty] = <<>>]
    /\ cthreads' = [cthreads EXCEPT ![t] = IdleThread]
    /\ UNCHANGED handles
    /\ UNCHANGED notCtxVars

\* try_get_state under the read lock, the guard dropped on return
TryGetState(t) ==
    /\ cthreads[t].pc = "locked" /\ cthreads[t].op = "try_get_state"
    /\ LET c == cthreads[t] IN
       /\ registries' = [registries EXCEPT ![c.i].r = @ \ {t}]
       /\ last_return' = [op |-> "try_get_state", ty |-> c.ty,
                          val |-> try_get_state(registries[c.i].map, c.ty)]
    /\ cthreads' = [cthreads EXCEPT ![t] = IdleThread]
    /\ UNCHANGED <<handles, spec_map>>
    /\ UNCHANGED notCtxVars

NextCtx ==
    \/ \E h \in 1..MaxHandles : AppContext_clone(h)
    \/ \E t \in 1..NCtxThreads, h \in 1..MaxHandles,
          op \in {"set_state", "remove_state"}, T \in Types, v \in Values :
          LockWrite(t, h, op, T, v)
    \/ \E t \in 1..NCtxThreads, h \in 1..MaxHandles, T \in Types :
          LockRead(t, h, T)
    \/ \E t \in 1..NCtxThreads : SetState(t)
    \/ \E t \in 1..NCtxThreads : RemoveState(t)
    \/ \E t \in 1..NCtxThreads : TryGetState(t)

SpecCtx == InitCtx /\ [][NextCtx]_vars

\* -------------------------------------------- ScopedMiddleware, chain!
\* a router with up to MaxStack middlewares and a route whose handler is one
\* middleware or a chain! of up to MaxChain; each is given by what it returns
InitScoped ==
    /\ ConnIdle
    /\ DispIdle
    /\ QueueIdle
    /\ PoolIdle
    /\ EngIdle
    /\ ResDefault
    /\ AccIdle
    /\ CtxIdle
    /\ router_stack \in UNION {[1..n -> MiddlewareResults] : n \in 0..MaxStack}
    /\ route_handler \in UNION {[1..n -> MiddlewareResults] : n \in 1..MaxChain}
    /\ spc = "Stack"
    /\ si = 1
    /\ sret = "none"
    /\ scalls = <<>>

\* the router loop going on after NextRoute
ScopedFlow_NextRouteContinues(res) ==
    IF res \in {"Next", "NextRoute"} THEN "continue" ELSE "return"

\* `match mw.handle(req, res, ctx)? { Next => continue, other => return
\* Ok(other) }`, the `?` returning the Err
ScopedFlow(res) == IF res = "Next" THEN "continue" ELSE "return"

\* one pass of `for mw in &self.router_stack`
ScopedStep ==
    /\ spc = "Stack"
    /\ si <= Len(router_stack)
    /\ scalls' = Append(scalls, [kind |-> "router", n |-> si])
    /\ IF ScopedFlow(router_stack[si]) = "continue"
       THEN /\ si' = si + 1
            /\ UNCHANGED <<spc, sret>>
       ELSE /\ spc' = "Done"
            /\ sret' = router_stack[si]
            /\ UNCHANGED si
    /\ UNCHANGED <<router_stack, route_handler>>
    /\ UNCHANGED notScopedVars

\* a middleware of the chain, invoked: what it returns and what was invoked
Atom(k) == [res |-> route_handler[k], invoked |-> <<k>>]

\* _chainer(a, b).handle: b is invoked only when a returned Ok(Next)
_chainer(a, b) ==
    IF a.res = "Next"
    THEN [res |-> b.res, invoked |-> a.invoked \o b.invoked]
    ELSE a

\* chain!(first, rest..): `chained` is first, then _chainer(chained, rest)
\* for each of the rest in turn
RECURSIVE chain(_)
chain(n) == IF n = 1 THEN Atom(1) ELSE _chainer(chain(n - 1), Atom(n))

\* the loop is exhausted: self.route_handler.handle(req, res, ctx)
ScopedHandler ==
    /\ spc = "Stack"
    /\ si > Len(router_stack)
    /\ LET h == chain(Len(route_handler)) IN
       /\ scalls' = scalls \o [j \in 1..Len(h.invoked) |->
                                 [kind |-> "handler", n |-> h.invoked[j]]]
       /\ sret' = h.res
    /\ spc' = "Done"
    /\ UNCHANGED <<router_stack, route_handler, si>>
    /\ UNCHANGED notScopedVars

NextScoped ==
    \/ ScopedStep
    \/ ScopedHandler

SpecScoped == InitScoped /\ [][NextScoped]_vars

\* ---------------------------------------------------------------- claims
\* the bytes the client sent from position s on
WireFrom(s) == SubSeq(wire, s + 1, Len(wire))
\* the responses written during pass i
OutOf(i) == {j \in 1..Len(out) : out[j].iter = i}
\* the dispatches of pass i
HandledOf(i) == {j \in 1..Len(handled) : handled[j].iter = i}
\* the value of the Connection header, lower-cased, "" when absent
ConnectionOf(req) ==
    IF HeaderContains(req.headers, "connection")
    THEN to_ascii_lowercase(HeaderGet(req.headers, "connection"))
    ELSE ""
DeclaresChunked(req) ==
    /\ HeaderContains(req.headers, "transfer-encoding")
    /\ to_ascii_lowercase(HeaderGet(req.headers, "transfer-encoding")) = "chunked"

\* C1: a dispatched request that declares Content-Length = N, N bytes having
\* followed its header terminator, has exactly those N bytes as its body,
\* however the stream was split into reads.
C1_BodyIsTheDeclaredBytes ==
    \A j \in 1..Len(handled) :
        LET h == handled[j]
            blk == WireFrom(h.start)
            e == header_end(blk)
            N == IF HeaderContains(h.req.headers, "content-length")
                 THEN parse_usize(HeaderGet(h.req.headers, "content-length"))
                 ELSE -1
        IN (N >= 0 /\ Len(blk) >= e + N) => h.req.body = SubSeq(blk, e + 1, e + N)

\* C2 (as stated): an HTTP/1.1 request with Connection: close, in any letter
\* case, gets exactly one response written and no further request is read.
C2_CloseOneResponseThenEnd ==
    \A k \in 1..Len(parsed) :
        LET p == parsed[k] IN
        (p.req.version = "HTTP_11" /\ ConnectionOf(p.req) = "close") =>
            /\ iter = p.iter
            /\ pc = "Terminated" => Cardinality(OutOf(p.iter)) = 1

\* C2 (amended): an HTTP/1.1 request with Connection: close, in any letter
\* case, is the last one read on its connection; exactly one response is
\* written for it when it is rejected or when the Service returns a response
\* or an error, and none when the Service consumes the socket or the read of
\* its body fails.
C2_CloseEndsConnection ==
    \A k \in 1..Len(parsed) :
        LET p == parsed[k]
            n == Cardinality(OutOf(p.iter))
        IN (p.req.version = "HTTP_11" /\ ConnectionOf(p.req) = "close") =>
            /\ iter = p.iter
            /\ pc \in {"ReadingBody", "Dispatching", "Terminated"}
            /\ pc = "Terminated" =>
                 IF HandledOf(p.iter) = {}
                 THEN \/ n = 1 /\ \A j \in OutOf(p.iter) : out[j].status \in {501, 413}
                      \/ n = 0 /\ ret = "Err"
                 ELSE \A j \in HandledOf(p.iter) :
                        IF handled[j].result = "Consumed" THEN n = 0 ELSE n = 1

\* a mixed-case Connection: Close request was answered by the Service and the
\* handler stopped with the client's next request still unread
C2_Witness ==
    /\ pc = "Terminated" /\ ret = "Ok" /\ Available > 0
    /\ \E k \in 1..Len(parsed), j \in 1..Len(handled) :
        /\ parsed[k].req.version = "HTTP_11"
        /\ HeaderContains(parsed[k].req.headers, "connection")
        /\ HeaderGet(parsed[k].req.headers, "connection") = "Close"
        /\ handled[j].iter = parsed[k].iter
        /\ handled[j].result = "Response"
        /\ Cardinality(OutOf(parsed[k].iter)) = 1

\* C3: a parsed request that declares Transfer-Encoding: chunked is answered
\* with 501 (one response, carrying Connection: close), is never passed to the
\* Service, and the handler terminates without another pass.
C3_ChunkedRejected ==
    \A k \in 1..Len(parsed) :
        LET p == parsed[k] IN
        DeclaresChunked(p.req) =>
            /\ HandledOf(p.iter) = {}
            /\ pc = "Terminated" /\ iter = p.iter
            /\ Cardinality(OutOf(p.iter)) = 1
            /\ \A j \in OutOf(p.iter) : out[j].status = 501 /\ out[j].close

\* a request with Transfer-Encoding: Chunked on a keep-alive connection got 501
C3_Witness ==
    \E k \in 1..Len(parsed) :
        /\ HeaderContains(parsed[k].req.headers, "transfer-encoding")
        /\ HeaderGet(parsed[k].req.headers, "transfer-encoding") = "Chunked"
        /\ parsed[k].keep_alive
        /\ pc = "Terminated"
        /\ \E j \in OutOf(parsed[k].iter) : out[j].status = 501 /\ out[j].ok

\* C4: keep_alive is true for HTTP/1.1 unless Connection: close is present,
\* and for HTTP/1.0 exactly when Connection: keep-alive is present.
C4_KeepAliveDecision ==
    \A k \in 1..Len(parsed) :
        LET p == parsed[k] IN
        p.keep_alive = IF p.req.version = "HTTP_11"
                       THEN ConnectionOf(p.req) # "close"
                       ELSE ConnectionOf(p.req) = "keep-alive"

\* the request line that begins the header block read from position s is
\* malformed: empty or missing method, bad target or bad version
MalformedAt(s) == Len(wire) > s /\ wire[s + 1] \in BadLines

\* C5: a request with a malformed request line is never passed to the Service;
\* once its header block is read the handler writes one 400 response, which
\* carries Connection: close, and terminates.
C5_MalformedRejected ==
    \A d \in hdrDone :
        MalformedAt(d[2]) =>
            /\ HandledOf(d[1]) = {}
            /\ iter = d[1]
            /\ pc \in {"ParseHeaders", "Terminated"}
            /\ pc = "Terminated" =>
                 /\ Cardinality(OutOf(d[1])) = 1
                 /\ \A j \in OutOf(d[1]) : out[j].status = 400 /\ out[j].close

\* a request line with an empty method was answered with 400
C5_Witness ==
    /\ pc = "Terminated"
    /\ \E d \in hdrDone :
        /\ wire[d[2] + 1][1] = "RL" /\ wire[d[2] + 1][2] = ""
        /\ \E j \in OutOf(d[1]) : out[j].status = 400 /\ out[j].ok

\* C6: nothing whose header block or body is longer than max_body_size is
\* passed to the Service, and a 413 response closes the connection.
C6_OversizeNeverDispatched ==
    /\ \A j \in 1..Len(handled) :
         /\ Len(handled[j].req.body) <= max_body_size
         /\ header_end(WireFrom(handled[j].start)) <= max_body_size
    /\ \A j \in 1..Len(out) :
         out[j].status = 413 => out[j].close /\ pc = "Terminated"

\* C7: the body passed to the Service has exactly Content-Length bytes, 0 when
\* the header is absent.
C7_BodyLengthIsContentLength ==
    \A j \in 1..Len(handled) :
        Len(handled[j].req.body) = ContentLength(handled[j].req.headers)

\* the routes whose method and path pattern match the request
Matching ==
    {i \in 1..Len(routes) :
        /\ routes[i].method = request.method
        /\ match_route(routes[i].path, request.path).ok}
\* the routes whose handler was invoked
Invoked == {calls[j].n : j \in {k \in 1..Len(calls) : calls[k].kind = "route"}}
\* the routes whose handler was invoked and returned Next or End
Accepting == {i \in Invoked : routes[i].result \in {"Next", "End"}}
\* a global middleware ended the request before the route phase
GlobalReturned ==
    \E j \in 1..Len(calls) :
        /\ calls[j].kind = "global"
        /\ \/ calls[j].result = "End"
           \/ calls[j].result = "Err" /\ ~error_handler
Smallest(S) == CHOOSE i \in S : \A k \in S : i <= k

\* C8: among the matching routes in registration order, those that return
\* NextRoute are passed over, the first whose handler returns anything else is
\* the last one invoked, and the response it produced is what dispatch returns.
C8_FirstNonDecliningRouteHandles ==
    (dpc = "Done" /\ ~GlobalReturned) =>
        LET taking == {i \in Matching : routes[i].result # "NextRoute"}
        IN IF taking = {}
           THEN Invoked = Matching
           ELSE /\ Invoked = {i \in Matching : i <= Smallest(taking)}
                /\ response.body.src \in {"route", "hook"}
                /\ response.body.n = Smallest(taking)

C10_RouteErrorWithoutHookIs500 ==
    (/\ dpc = "Done"
     /\ ~error_handler
     /\ \E i \in Invoked : routes[i].result = "Err") => response.status = 500

\* C11: when a global middleware returned Err, the error hook was invoked if
\* one is configured, a 500 response was set otherwise, and dispatch returned
\* that response: no later global middleware and no route handler was invoked.
C11_GlobalErrReturns ==
    \A j \in 1..Len(calls) :
        (dpc = "Done" /\ calls[j].kind = "global" /\ calls[j].result = "Err") =>
            IF error_handler
            THEN /\ Len(calls) = j + 1
                 /\ calls[j + 1].kind = "hook"
                 /\ response = HookEffect(calls[j].n)
            ELSE /\ Len(calls) = j
                 /\ response.status = 500

\* the positions in `calls` of the global middleware invoked
GlobalCalls == {j \in 1..Len(calls) : calls[j].kind = "global"}
\* the positions in `calls` of the route handlers invoked
RouteCalls == {j \in 1..Len(calls) : calls[j].kind = "route"}

\* C12: global middleware run in registration order and before any route
\* handler; after Next the next global middleware runs, after NextRoute no
\* further global middleware runs and the routes are matched, after End
\* nothing else runs and the response as it stands is returned.
C12_GlobalPhaseOrder ==
    /\ \A j \in GlobalCalls :
         calls[j].n = Cardinality({k \in GlobalCalls : k <= j})
    /\ \A g \in GlobalCalls, r \in RouteCalls : g < r
    /\ \A j \in GlobalCalls :
         LET n == calls[j].n
             later == {k \in GlobalCalls : k > j}
         IN CASE calls[j].result = "Next" ->
                   n < Len(middleware) =>
                       \/ dpc = "Global" /\ gi = n + 1 /\ j = Len(calls)
                       \/ \E k \in later : calls[k].n = n + 1
              [] calls[j].result = "NextRoute" ->
                   /\ later = {}
                   /\ dpc \in {"Routes", "AfterRoutes", "Done"}
                   /\ (dpc = "Done" /\ Matching # {}) =>
                          Smallest(Matching) \in Invoked
              [] calls[j].result = "End" ->
                   /\ j = Len(calls)
                   /\ dpc = "Done"
                   /\ response = GlobalEffect(n)
              [] OTHER -> TRUE

\* the first of two global middleware returned NextRoute: the second was
\* not invoked and a matching route's handler was
C12_Witness ==
    /\ dpc = "Done"
    /\ Len(middleware) = 2
    /\ middleware[1] = "NextRoute"
    /\ Cardinality(GlobalCalls) = 1
    /\ Invoked # {}

\* the segments of a pattern or a path
Segments(p) == split(trim_matches(p))
\* segment i of the pattern of route 1 is a ':name' capture
IsCapture(i) ==
    LET seg == Segments(routes[1].path)[i] IN seg # <<>> /\ seg[1] = ":"
\* pattern and path have as many segments, and every segment of the pattern
\* that is not a capture equals the segment of the path at its place
ShouldMatch ==
    LET P == Segments(routes[1].path)
        Q == Segments(request.path)
    IN /\ Len(P) = Len(Q)
       /\ \A i \in 1..Len(P) : ~IsCapture(i) => P[i] = Q[i]
\* name `nm` is bound to `v`: by the last capture of that name
Bound(nm, v) ==
    LET P == Segments(routes[1].path)
        Q == Segments(request.path)
    IN \E i \in 1..Len(P) :
          /\ IsCapture(i) /\ Tail(P[i]) = nm /\ Q[i] = v
          /\ \A j \in (i + 1)..Len(P) : ~(IsCapture(j) /\ Tail(P[j]) = nm)

\* C13: the handler of a route runs exactly when its pattern and the path have
\* as many segments and agree on every segment that is not a ':name' capture;
\* when it runs, the request carries exactly one binding per captured name,
\* to the path segment at the place of the last capture of that name; no
\* binding is attached when the match fails.
C13_MatchRoute ==
    /\ Invoked # {} => ShouldMatch
    /\ (dpc = "Done" /\ ShouldMatch) => Invoked = {1}
    /\ Invoked # {} =>
         /\ \A b \in params : Bound(b[1], b[2])
         /\ \A i \in 1..Len(Segments(routes[1].path)) :
              IsCapture(i) =>
                \E b \in params : b[1] = Tail(Segments(routes[1].path)[i])
         /\ \A b, c \in params : b[1] = c[1] => b = c
    /\ Invoked = {} => params = {}

\* the pattern "/:/:" matched "/x/y": the name captured twice is bound to "y"
C13_Witness ==
    /\ dpc = "Done"
    /\ routes[1].path = <<"/", ":", "/", ":">>
    /\ request.path = <<"/", "x", "/", "y">>
    /\ Invoked = {1}
    /\ params = {<< <<>>, <<"y">> >>}

\* the positions in `popped` of the items of producer p
PoppedOf(p) ==
    {j \in 1..Len(popped) : popped[j].entry.tag = "Value" /\ popped[j].entry.p = p}
\* how often entry e is in the queue, how often it was returned by a pop
InQueue(e) == Cardinality({j \in 1..Len(queue) : queue[j] = e})
InPopped(e) == Cardinality({j \in 1..Len(popped) : popped[j].entry = e})
\* the sentinels enqueued so far: one per unblock, one by shutdown
Sentinels == unblocks + (IF shutdown_flag THEN 1 ELSE 0)
ConsumersIn(st) == {c \in DOMAIN consumer : consumer[c] = st}

\* C14: the pops return the items of one producer in the order of its pushes.
C14_QueueFifo ==
    \A p \in Producers : \A j \in PoppedOf(p) :
        popped[j].entry.k = Cardinality({i \in PoppedOf(p) : i <= j})

\* both items of each producer were popped, those of producer 1 by different
\* consumers
C14_Witness ==
    /\ \A p \in Producers : Cardinality(PoppedOf(p)) >= 2
    /\ \E i, j \in PoppedOf(1) : popped[i].c # popped[j].c

\* C15: a pop returns Some only for an item that was pushed and None only by
\* taking a sentinel; every item pushed and every sentinel is either still in
\* the queue or was returned by exactly one pop; no entry is left in the queue
\* while consumers wait and none of them is about to run.
C15_QueueDelivery ==
    /\ \A j \in 1..Len(popped) :
         LET e == popped[j].entry IN
         e.tag = "Value" => e.p \in Producers /\ e.k < next_item[e.p]
    /\ \A pp \in Producers : \A kk \in 1..(next_item[pp] - 1) :
         InQueue(Value(pp, kk)) + InPopped(Value(pp, kk)) = 1
    /\ InQueue(Unblock) + InPopped(Unblock) = Sentinels
    /\ \A c \in Consumers :
         consumer[c] = "done" <=>
             \E j \in 1..Len(popped) : popped[j].c = c /\ popped[j].entry = Unblock
    /\ (queue # <<>> /\ ConsumersIn("parked") # {}) => ConsumersIn("ready") # {}

\* every item of two producers and a sentinel were delivered, to two consumers
C15_Witness ==
    /\ \A p \in Producers : next_item[p] > MaxPush
    /\ queue = <<>>
    /\ InPopped(Unblock) >= 1
    /\ \E i, j \in 1..Len(popped) : popped[i].c # popped[j].c
    /\ \E c \in Consumers : consumer[c] = "parked"

C17_ShutdownReleasesAll ==
    shutdown_flag ~> (\A c \in Consumers : consumer[c] = "done")

\* C18: a consumer blocked in pop returns, whatever happens to the queue.
C18_PopReturnsAfterTimeout ==
    \A c \in Consumers : (consumer[c] = "parked") ~> (consumer[c] # "parked")

\* the pool is at rest: every task was submitted and has been run
Quiet ==
    /\ ~dropped
    /\ submitted = MaxTasks
    /\ caller = "idle"
    /\ channel = <<>>
    /\ \A w \in Live : workers[w].st = "recv"

\* C19: the number of worker threads spawned and not yet exited is at most
\* max_workers, whatever the PoolConfig and the calls of add_task.
C19_WorkerCeiling == Cardinality(Live) <= max_workers

\* C20: once every task was submitted and has been run, and every worker has
\* since waited a whole idle timeout, the workers above min_workers have
\* retired: min_workers threads are left.
C20_ConvergesToMinWorkers ==
    (Quiet /\ \A w \in Live : workers[w].t >= 1) =>
        Cardinality(Live) = min_workers

\* the workers waiting in recv_timeout
Waiting == {w \in Live : workers[w].st = "recv"}

CountOf(x, q) == Cardinality({j \in 1..Len(q) : q[j] = x})

\* C21: add_task appends the job to the channel; it spawns one worker when no
\* live worker is waiting for a job and fewer than max_workers are live, and
\* none otherwise.
C21_AddTaskSpawnsIffNoIdle ==
    [][/\ (caller = "idle" /\ caller' = "sent") =>
             channel' = Append(channel, "Task")
       /\ (caller = "sent" /\ caller' = "idle") =>
             Len(workers') = Len(workers) +
                 (IF Waiting = {} /\ Cardinality(Live) < max_workers
                  THEN 1 ELSE 0)]_vars

\* C22: when a task ends, by returning or by panicking, the worker that ran
\* it is back in recv_timeout, idle_workers is one more than while the task
\* ran and active_workers is unchanged.
C22_PanicIsContained ==
    [][\A w \in 1..Len(workers) :
          (workers[w].st = "running" /\ workers'[w].st # "running") =>
              /\ workers'[w].st = "recv"
              /\ idle_workers' = idle_workers + 1
              /\ active_workers' = active_workers]_vars

\* a worker whose last task panicked has taken the next job
C22_Witness ==
    \E w \in 1..Len(workers) :
        workers[w].last = "panicked" /\ workers[w].st = "running"

\* C23: dropping the pool sends as many Stop jobs as workers are live, every
\* Stop that leaves the channel ends exactly one worker, and after the drop
\* every worker leaves its loop.
C23_DropStopsEveryWorker ==
    /\ [][(~dropped /\ dropped') =>
              /\ CountOf("Stop", channel') = Cardinality(Live)
              /\ SubSeq(channel', 1, Len(channel)) = channel]_vars
    /\ [][CountOf("Stop", channel') < CountOf("Stop", channel) =>
              /\ CountOf("Stop", channel') = CountOf("Stop", channel) - 1
              /\ Cardinality(Live') = Cardinality(Live) - 1]_vars
    /\ dropped ~> (Live = {})

\* the pool was dropped with a task still queued ahead of the Stops, and its
\* two workers have left
C23_Witness ==
    /\ dropped
    /\ Len(workers) >= 2
    /\ submitted >= 1
    /\ Live = {}
    /\ channel = <<>>

\* C24: when the Service returned Consumed, the handler has left its loop
\* without writing a response for that request, without another read, and
\* the socket is still open for whoever consumed it.
C24_ConsumedLeavesSocketAlone ==
    \A j \in 1..Len(handled) :
        handled[j].result = "Consumed" =>
            /\ pc = "Terminated" /\ iter = handled[j].iter
            /\ OutOf(handled[j].iter) = {}
            /\ ~StreamDropped

\* the responses the handler itself writes for a framing error
FramingErrors == {j \in 1..Len(out) : out[j].status \in {400, 413, 501}}

ReadsOf(k) ==
    {j \in 1..Len(socklog) :
        socklog[j].conn = 1 /\ socklog[j].op = "read" /\ socklog[j].id = k}
WritesOf(k) ==
    {j \in 1..Len(socklog) :
        socklog[j].conn = 1 /\ socklog[j].op = "write" /\ socklog[j].id = k}

\* C25: at most one component holds a live handle to the socket, and the
\* connection coroutine does not read after a request carrying the socket was
\* handed to the queue.
C25_SingleSocketOwner ==
    /\ Cardinality(Holders) <= 1
    /\ \A k \in 1..MaxRequests :
         (k > 1 /\ ReadsOf(k) # {}) => Holders \cap {"queue", "for_each"} = {}

\* C26: no byte of request k+1 is read before the response to request k, if
\* request k was accepted for handling, is written; responses are written in
\* request order.
C26_SequentialPerConnection ==
    /\ \A k \in 1..MaxRequests : \A j \in ReadsOf(k + 1) :
         (\E r \in ReadsOf(k) : socklog[r].pushed) =>
             \E i \in WritesOf(k) : i < j
    /\ \A i, j \in 1..Len(socklog) :
         (/\ socklog[i].conn = 1 /\ socklog[j].conn = 1
          /\ socklog[i].op = "write" /\ socklog[j].op = "write" /\ i < j)
             => socklog[i].id < socklog[j].id

BodyOps == {"send_text", "send_bytes", "send_html", "send_json", "send_file",
            "redirect"}

\* C29: after one or more body-setting operations and nothing else, the
\* Response has a body and its content-length header is the length of it.
C29_ContentLengthMatchesBody ==
    (res_ops # <<>> /\ \A i \in 1..Len(res_ops) : res_ops[i].name \in BodyOps)
        => /\ res_body.some
           /\ res_headers["content-length"] = format(res_body.len)

LastOp == res_ops'[Len(res_ops')]
Stepped == Len(res_ops') = Len(res_ops) + 1

\* C30 (as stated): a body-setting operation leaves a content-length,
\* content-type or date header that is already present as it is.
C30_PresentHeadersKept ==
    [][(Stepped /\ LastOp.name \in BodyOps) =>
          \A h \in {"content-length", "content-type", "date"} :
              res_headers[h] # Absent => res_headers'[h] = res_headers[h]]_vars

\* the media type an operation sets, Absent when it sets none
ContentTypeOf(op) ==
    CASE op.name = "send_text" -> <<"text/plain;charset=utf-8">>
      [] op.name = "send_html" -> <<"text/html">>
      [] op.name = "send_json" ->
           IF op.arg = "Ok" THEN <<"application/json">> ELSE <<"text/plain">>
      [] OTHER -> Absent

\* C30 (amended): send_text, send_html and send_json set content-type and
\* content-length whatever was there before; send_bytes, redirect and a
\* send_file that read its file set content-length only and leave
\* content-type as it is; none of them touches date.  to_raw writes the
\* headers of the map as they are and adds date, and content-length for a
\* non-empty body, only when the map has none.
C30_SettersReplaceToRawFillsIn ==
    [][/\ (Stepped /\ LastOp.name \in BodyOps
              /\ ~(LastOp.name = "send_file" /\ LastOp.arg # "Ok")) =>
             /\ res_headers'["content-length"] = format(res_body'.len)
             /\ res_headers'["content-type"] =
                  IF ContentTypeOf(LastOp) # Absent THEN ContentTypeOf(LastOp)
                  ELSE res_headers["content-type"]
             /\ res_headers'["date"] = res_headers["date"]
       /\ (Stepped /\ LastOp.name = "to_raw") =>
             LET r == res_raw'[1] IN
             /\ \A h \in ResHeaderNames :
                  res_headers[h] # Absent => r.headers[h] = res_headers[h]
             /\ res_headers["date"] = Absent => r.headers["date"] = <<"now">>
             /\ res_headers["content-length"] = Absent =>
                  r.headers["content-length"] =
                      IF r.body_len > 0 THEN format(r.body_len) ELSE Absent]_vars

\* a content-type set by add_header was replaced by send_text, and to_raw
\* then added the date
C30_Witness ==
    /\ Len(res_ops) = 3
    /\ res_ops[1].name = "add_header" /\ res_ops[1].arg = "Content-Type"
    /\ res_ops[2].name = "send_text"
    /\ res_ops[3].name = "to_raw"
    /\ res_raw[1].headers["content-type"] = <<"text/plain;charset=utf-8">>
    /\ res_raw[1].headers["date"] = <<"now">>

\* C27: a step in which a connection's handler panics changes that
\* connection only, which ends: the accept loop is as it was, still
\* accepting if it was, and so is every other connection.
C27_PanicContained ==
    [][panics' > panics =>
          /\ acceptor' = acceptor
          /\ running' = running
          /\ Len(conns') = Len(conns)
          /\ Cardinality({c \in 1..Len(conns) : conns'[c] # conns[c]}) = 1
          /\ \A c \in 1..Len(conns) :
               conns'[c] # conns[c] =>
                   conns[c].st = "serving" /\ conns'[c].st = "panicked"]_vars

\* one connection panicked while another was being served; that one ended
\* normally afterwards, and a connection accepted after the panic was served
C27_Witness ==
    \E a, b, c \in 1..Len(conns) :
        /\ conns[a].st = "panicked"
        /\ conns[b].st = "Ok" /\ conns[b].after = 0 /\ conns[b].fin = 1
        /\ conns[c].st = "Ok" /\ conns[c].after = 1

\* C34: a worker whose recv_timeout times out leaves its loop, and
\* active_workers goes down by one, when more than min_workers workers are
\* live; with min_workers or fewer live it stays.
C34_IdleTimeoutRetires ==
    [][\A w \in 1..Len(workers) :
          (workers[w].st = "recv" /\ idle_workers' = idle_workers - 1
              /\ workers'[w] # workers[w]) =>
              IF Cardinality(Live) > min_workers
              THEN /\ workers'[w].st = "exited"
                   /\ active_workers' = active_workers - 1
              ELSE /\ workers'[w].st = "recv"
                   /\ active_workers' = active_workers]_vars

\* C38: idle_workers is the number of workers waiting in recv_timeout, and so
\* never below zero.
C38_IdleCounterCountsWaiting ==
    /\ idle_workers >= 0
    /\ idle_workers = Cardinality(Waiting)

\* the tasks sent and not yet run to their end
Pending ==
    CountOf("Task", channel)
    + Cardinality({w \in Live : workers[w].st \in {"got_task", "running"}})

\* C39 (as stated): whenever tasks are pending, a state follows in which
\* every task submitted so far has been run.
C39_EveryTaskRuns == (Pending > 0) ~> (Pending = 0)

\* C39 (amended): in a pool whose config lets a worker exist, whenever tasks
\* are pending a state follows in which every task submitted so far has been
\* run.
C39_EveryTaskRunsGivenAWorker ==
    (Pending > 0 /\ (min_workers >= 1 \/ max_workers >= 1)) ~> (Pending = 0)

\* a pool that started without workers spawned one on add_task, and every
\* task submitted has been run
C39_Witness ==
    /\ min_workers = 0
    /\ submitted = MaxTasks
    /\ Pending = 0
    /\ \E w \in 1..Len(workers) : workers[w].last # "none"

\* the request signalled close: HTTP/1.1 with Connection: close, or HTTP/1.0
\* without Connection: keep-alive
SignalsClose(req) ==
    IF req.version = "HTTP_11"
    THEN ConnectionOf(req) = "close"
    ELSE ConnectionOf(req) # "keep-alive"

\* the responses of the Service that were written in full
ServiceResponses ==
    {j \in 1..Len(out) :
        /\ out[j].ok
        /\ \E h \in HandledOf(out[j].iter) : handled[h].result = "Response"}

\* C35: after a Service response is written, the handler has terminated in
\* that pass if the response carries Connection: close or the request
\* signalled close, and otherwise has gone on to the next pass of the loop.
C35_CloseOrNextRequest ==
    \A j \in ServiceResponses :
        \A h \in HandledOf(out[j].iter) :
            IF out[j].close \/ SignalsClose(handled[h].req)
            THEN pc = "Terminated" /\ iter = out[j].iter
            ELSE iter > out[j].iter

\* C35 restricted to the requests whose keep-alive decision the code takes as
\* described (HTTP/1.1): the part of the statement the code keeps
C35_CloseOrNextRequest11 ==
    \A j \in ServiceResponses :
        \A h \in HandledOf(out[j].iter) :
            handled[h].req.version = "HTTP_11" =>
                IF out[j].close \/ SignalsClose(handled[h].req)
                THEN pc = "Terminated" /\ iter = out[j].iter
                ELSE iter > out[j].iter

\* C36: when the handler of a route returned Err and an error hook is
\* configured, the hook was invoked once, right after it, nothing was invoked
\* after the hook, and the response dispatch returns is the one the hook
\* produced.
C36_RouteErrHookResponseReturned ==
    \A j \in RouteCalls :
        (dpc = "Done" /\ error_handler /\ calls[j].result = "Err") =>
            /\ Len(calls) = j + 1
            /\ calls[j + 1].kind = "hook"
            /\ response = HookEffect(calls[j].n)

\* the last write of for_each, if there was one
Writes == {j \in 1..Len(socklog) : socklog[j].op = "write"}
\* for_each returned right after it completed a response on connection 1
\* for a request that carried Connection: close
EndedByClose ==
    /\ foreach = "returned"
    /\ Writes # {}
    /\ \E j \in Writes :
         /\ \A i \in Writes : i <= j
         /\ socklog[j].conn = 1 /\ socklog[j].close /\ socklog[j].res = "Ok"

\* C40: completing a request that carries Connection: close on one
\* connection does not end the dispatch loop: no request pushed by another
\* connection is left in the queue by a for_each that returned on that
\* account.
C40_CloseEndsOnlyItsConnection ==
    ~(EndedByClose /\ \E j \in 1..Len(messages) : messages[j].conn = 2)

\* what try_get_state::<T> through handle h returns
LookupThrough(h, T) == try_get_state(registries[handles[h]].map, T)

\* C31: a lookup through any handle finds what a map keyed by type holds
\* (the value last set for T, None exactly when T is absent), every
\* try_get_state returns just that, and remove_state returns true exactly when
\* T was present and leaves T absent.
C31_RefinesTypeKeyedMap ==
    /\ [](\A h \in 1..Len(handles), T \in Types :
              LookupThrough(h, T) = spec_map[T])
    /\ [][\A t \in 1..NCtxThreads, T \in Types :
            (/\ cthreads[t].pc = "locked" /\ cthreads'[t].pc = "idle"
             /\ cthreads[t].ty = T) =>
                CASE cthreads[t].op = "try_get_state" ->
                        last_return'.val = spec_map[T]
                  [] cthreads[t].op = "remove_state" ->
                        /\ last_return'.val = <<spec_map[T] # <<>>>>
                        /\ \A h \in 1..Len(handles) : LookupThrough(h, T)' = <<>>
                  [] cthreads[t].op = "set_state" ->
                        \A h \in 1..Len(handles) :
                            LookupThrough(h, T)' = <<cthreads[t].v>>]_vars

\* a value of a type was set, another value was set over it, and a lookup
\* of the type has just returned the second
C31_Witness ==
    \E t \in 1..NCtxThreads, T \in Types :
        /\ cthreads[t].pc = "idle" /\ cthreads[t].op = "set_state"
        /\ cthreads[t].ty = T /\ cthreads[t].v = 1
        /\ spec_map[T] = <<2>>
        /\ last_return = [op |-> "try_get_state", ty |-> T, val |-> <<2>>]

\* every thread has completed a set_state of type T as its last call on
\* that type
AllSet(T) ==
    \A t \in 1..NCtxThreads :
        /\ cthreads[t].pc = "idle"
        /\ cthreads[t].op = "set_state"
        /\ cthreads[t].ty = T

\* C32: all handles point to one registry, and once concurrent set_state
\* calls of one type have all completed, get_state of that type returns the
\* value one of them wrote, the same through every handle.
C32_ClonesShareAtomicSets ==
    /\ \A h \in 1..Len(handles) : handles[h] = handles[1]
    /\ \A T \in Types :
         AllSet(T) =>
             \E t \in 1..NCtxThreads :
                 \A h \in 1..Len(handles) :
                     get_state(registries[handles[h]].map, T) = <<cthreads[t].v>>

\* the threads wrote different values of one type, a clone of the context
\* exists, and all the calls have completed
C32_Witness ==
    \E T \in Types :
        /\ AllSet(T)
        /\ Len(handles) = MaxHandles
        /\ \E t, u \in 1..NCtxThreads : cthreads[t].v # cthreads[u].v

\* C33: the entry of a type changes only in the step in which a set_state or
\* a remove_state of that very type completes; lookups, clones, lock
\* acquisitions and operations on other types leave it as it is.
C33_OnlyOwnTypeChanges ==
    [][\A i \in 1..Len(registries), T \in Types :
          registries'[i].map[TypeId_of(T)] # registries[i].map[TypeId_of(T)] =>
              \E t \in 1..NCtxThreads :
                  /\ cthreads[t].pc = "locked"
                  /\ cthreads[t].op \in {"set_state", "remove_state"}
                  /\ cthreads[t].ty = T
                  /\ cthreads'[t].pc = "idle"]_vars

\* values of both types are present and a remove_state of one of them has
\* just returned true, the other still there
C33_Witness ==
    \E T, U \in Types :
        /\ T # U
        /\ last_return = [op |-> "remove_state", ty |-> T, val |-> <<TRUE>>]
        /\ spec_map[T] = <<>>
        /\ spec_map[U] # <<>>

\* the router's middlewares followed by those of the route's chain, in
\* registration order, and the position of the first that does not return Next
Registered == router_stack \o route_handler
LastToRun ==
    LET stops == {i \in 1..Len(Registered) : Registered[i] # "Next"}
    IN IF stops = {} THEN Len(Registered) ELSE Smallest(stops)
\* the j-th of them as it appears in `scalls`
CallOf(j) ==
    IF j <= Len(router_stack)
    THEN [kind |-> "router", n |-> j]
    ELSE [kind |-> "handler", n |-> j - Len(router_stack)]

\* C37: the router's middlewares and then the middlewares of the route's
\* chain are invoked in registration order, each only if every one before it
\* returned Next; the first End, NextRoute or Err, or else what the last one
\* returned, is the outcome, and nothing is invoked after it.
C37_ScopedStackAndChainOrder ==
    /\ \A j \in 1..Len(scalls) :
         /\ scalls[j] = CallOf(j)
         /\ \A i \in 1..(j - 1) : Registered[i] = "Next"
    /\ spc = "Done" =>
         /\ Len(scalls) = LastToRun
         /\ sret = Registered[LastToRun]

\* both router middlewares returned Next, the handler is a chain of three
\* whose second middleware returned End: four were invoked, the third of the
\* chain was not
C37_Witness ==
    /\ spc = "Done"
    /\ Len(router_stack) = 2
    /\ Len(route_handler) = 3
    /\ route_handler[2] = "End"
    /\ Len(scalls) = 4
    /\ sret = "End"

=============================================================================
